---- MODULE Spec2Model ----
(***************************************************************************)
(* BitRPC: the SPSC shared-memory ring buffer (Src/SharedMemory) and the   *)
(* TCP request/response and server-streaming transport (Src/C++Core).      *)
(*                                                                         *)
(* SpecRing : one producer thread and one consumer thread on one           *)
(*            initialized RingBuffer; every load/store of a cursor, every  *)
(*            copied byte and every event signal is a separate step.       *)
(* SpecRpc  : one TcpRpcClientAsync and one TcpRpcServer worker            *)
(*            (handle_client) joined by a reliable, ordered connection.    *)
(* SpecServed : SpecRpc with a client that calls registered methods only.  *)
(* SpecCalls  : threads sharing one client, making unary calls.            *)
(* SpecShared : threads sharing one client, making unary and stream calls. *)
(* SpecMsg    : a producer and a consumer SharedMemoryManager, with the    *)
(*              heartbeat thread and a clock.                              *)
(* SpecCodec  : request framing, StreamWriter/StreamReader and             *)
(*              write_object/read_object applied to bounded inputs.        *)
(* SpecReg    : threads reaching BufferSerializer::instance() and          *)
(*              registering handlers.                                      *)
(* SpecMask   : one BitMask set, cleared, written and read back.           *)
(* SpecConn   : the two clients calling on connections whose receives can  *)
(*              fail.                                                      *)
(* SpecDispatch : a service whose registries overlap, and calls dispatched  *)
(*              to it.                                                     *)
(* SpecFrame  : the server worker receiving frames of any announced length *)
(*              from a connection that can end.                            *)
(* SpecHdr    : a producer's and a consumer's RingBuffer::create on one    *)
(*              mapping, store by store and load by load.                  *)
(* SpecMgr    : one SharedMemoryManager started and stopped while its      *)
(*              worker, its heartbeat thread and an application thread run. *)
(* SpecSpsc   : application and heartbeat thread of a producer manager,    *)
(*              application and worker thread of a consumer manager.       *)
(* SpecPart   : receive_message with a timeout on a ring that holds part   *)
(*              of a message.                                              *)
(* SpecIds    : threads building messages from the 32-bit id counter.      *)
(* SpecReader : one StreamReader and the reads made on its buffer.         *)
(* SpecUse    : one RingBuffer object used in every lifecycle state.       *)
(* SpecReconn : a client whose connect is called while it is connected.    *)
(* SpecLatch  : a stream reader and a stream writer whose socket calls     *)
(*              can fail.                                                  *)
(* SpecLife   : clients, server, manager, ring, stream reader and writer   *)
(*              opened and shut down, more than once.                      *)
(***************************************************************************)
EXTENDS Integers, Sequences, FiniteSets, TLC

(***************************************************************************)
(* Bounds of the model.                                                    *)
(***************************************************************************)
Capacity == 3    \* config_.buffer_size, scaled down
MaxChunk == 3    \* largest size passed to write/read/peek/skip
MaxBytes == 4    \* total number of bytes the producer writes in a run
MaxSem == 2      \* SEM_VALUE_MAX of the POSIX semaphore, scaled down
MaxCalls == 3    \* number of calls the client makes on its connection
NumThreads == 2        \* threads sharing one TcpRpcClientAsync
MaxFrames == 2          \* largest number of frames a service's stream reader yields
RingCells == 12        \* capacity of the managers' ring buffer, in cells
MaxMessageCells == 6   \* config_.max_message_size, in cells
MaxPayload == 2        \* longest payload the application sends, in cells
MaxData == 2           \* application messages sent in one behaviour
MaxTime == 8           \* the clock stops here
HeartbeatInterval == 1 \* config_.heartbeat_interval_ms, in clock units
MaxName == 2           \* longest method name framed and parsed
MaxBody == 2           \* longest request body framed and parsed
MaxStr == 2            \* longest string and byte vector written and read
MaxWords == 3          \* most 32-bit words a BitMask grows to
MaxCloses == 2         \* shutdown calls made in a row on one object
MaxCreates == 2        \* create() calls each side makes on the mapping
MaxBuilt == 3          \* messages built one by one, besides the long runs
MaxReaderWords == 2    \* int32 words at the head of a StreamReader's buffer
MaxReaderTail == 3     \* single bytes after those words

VARIABLES
    \* ---- shared memory of the ring buffer (ring_buffer.h:24-32) ----
    buffer_,          \* the data region, physical index 0..Capacity-1
    write_pos,        \* header_->write_pos
    read_pos,         \* header_->read_pos
    data_ready,       \* data_ready_event_: pending signals
    space_available,  \* space_available_event_: pending signals
    platform,         \* "linux" (LinuxEvent) or "win32" (WindowsEvent)
    \* ---- the two threads ----
    prod,             \* producer: position in write/write_atomic and locals
    cons,             \* consumer: position in read/peek/skip/wait_for_data
    \* ---- history ----
    written,          \* bytes of all successful writes, in write order
    readOut,          \* bytes returned by all reads, in read order
    skipped,          \* number of bytes consumed by skip()
    writeSinceWait    \* a write returned true while the consumer was blocked

VARIABLES
    \* ---- the TCP connection (client.cpp, server.cpp) ----
    c2s,              \* bytes sent by the client, not yet received
    s2c,              \* bytes sent by the server, not yet received
    cli,              \* the client: its current call and the reader it holds
    served,           \* history: the last request handle_client worked on
    nextCall,         \* history: serial number of the next client call
    worker            \* the server worker: "serving" its loop or "closed"

ringVars == <<buffer_, write_pos, read_pos, data_ready, space_available,
              platform, prod, cons, written, readOut, skipped, writeSinceWait>>

rpcVars == <<c2s, s2c, cli, served, nextCall, worker>>

VARIABLES
    \* ---- one TcpRpcClientAsync shared by several threads (client.cpp) ----
    thr,              \* each calling thread: its position and current call
    socket_mutex_     \* TcpRpcClientAsync::socket_mutex_: holder, 0 if free

thrVars == <<thr, socket_mutex_>>

VARIABLES
    \* ---- a producer and a consumer SharedMemoryManager ----
    mring,            \* the unread cells of the managers' ring buffer
    next_id_,         \* SharedMemoryMessage::next_id_
    mgr,              \* running state of the two managers, heartbeat due time
    last_heartbeat_,  \* consumer's last_heartbeat_
    now,              \* the clock, in heartbeat-interval units
    wfh,              \* the consumer's call of wait_for_heartbeat
    sentLog,          \* history: messages written, with their stream offset
    recvIds,          \* history: message_id of every message received
    lastRecv,         \* history: the last successful receive_message
    msgHist           \* history: cells consumed, data sent, last heartbeat

msgVars == <<mring, next_id_, mgr, last_heartbeat_, now, wfh, sentLog,
             recvIds, lastRecv, msgHist>>

VARIABLES
    \* ---- the codec and the request framing, applied to one input ----
    framed,           \* a request payload built by a client and parsed
    coded             \* a value written by StreamWriter and read back

codecVars == <<framed, coded>>

VARIABLES
    \* ---- BufferSerializer::instance() and its handler registry ----
    linked,                  \* the BufferSerializer definition the build links
    inst,                    \* each thread's position in instance()
    initialized,             \* the static flag of rpc_core.cpp's instance()
    handlers_by_type_,       \* handlers_: typeid hash -> handler
    handlers_by_hash_code_,  \* hash code -> handler
    raced,                   \* two threads mutated the maps without a lock
    inits,                   \* how many times init_handlers has run
    hash_owner               \* the type each hash code was last registered for

regVars == <<linked, inst, initialized, handlers_by_type_,
             handlers_by_hash_code_, raced, inits, hash_owner>>

VARIABLES
    \* ---- one BitMask ----
    masks_,           \* its words, each as the four bytes of a uint32_t
    last_set,         \* per index, the value most recently set (false: never)
    wire              \* the mask written to a StreamWriter and read back

maskVars == <<masks_, last_set, wire>>

VARIABLES
    \* ---- objects that are opened and shut down ----
    tcp_client,       \* a TcpRpcClient: connected_, socket_
    tcp_async,        \* a TcpRpcClientAsync: connected_, socket_
    tcp_server,       \* a TcpRpcServer
    shm_manager,      \* a SharedMemoryManager and its RingBuffer
    ring_object,      \* a RingBuffer
    stream_reader,    \* a TcpStreamResponseReader
    stream_writer,    \* a TcpStreamResponseWriter and what it sent
    closes,           \* per object, shutdown calls since it was last opened
    process           \* the process whose objects are exercised

lifeVars == <<tcp_client, tcp_async, tcp_server, shm_manager, ring_object,
              stream_reader, stream_writer, closes, process>>

VARIABLES
    \* ---- clients on a connection that can fail ----
    clients           \* per client class: connected_, socket_, requests
                      \* sent, and how the most recent call ended

connVars == <<clients>>

VARIABLES
    \* ---- a stream reader and a stream writer on failing sockets ----
    rd,               \* TcpStreamResponseReader: flags, error_message_,
                      \* socket calls made, the most recent call
    wr                \* TcpStreamResponseWriter: the same

latchVars == <<rd, wr>>

VARIABLES
    \* ---- the worker receiving frames from a connection that can end ----
    rx                \* the worker's state and what it did with each frame

frameVars == <<rx>>

VARIABLES
    \* ---- one service's three registries and a dispatched call ----
    registries,       \* stream_methods_, methods_, async_methods_ as sets
    dispatched        \* the most recent call: its method, the handlers run

dispatchVars == <<registries, dispatched>>

VARIABLES
    \* ---- RingBuffer::create on a named mapping, from both sides ----
    shm_header,       \* the RingBufferHeader in the shared mapping
    pcreate,          \* the producer's RingBuffer inside create()
    ccreate           \* the consumer's RingBuffer inside create(OPEN_ONLY)

hdrVars == <<shm_header, pcreate, ccreate>>

VARIABLES
    \* ---- one SharedMemoryManager and the threads that run in it ----
    sm,               \* the manager object's members
    ctl,              \* the thread that calls start_producer/start_consumer/stop
    mt,               \* worker, heartbeat and one application thread: position
    late              \* history: first ring operation on a closed or freed ring

mgrVars == <<sm, ctl, mt, late>>

VARIABLES
    \* ---- a producer manager and a consumer manager, two threads each ----
    shared,           \* the ring between them: unread cells, read position
    snd,              \* producer side: application and heartbeat thread
    rcv,              \* consumer side: application and worker thread
    built,            \* messages built so far (next_id_ - 1)
    wrote,            \* history: messages in the order write_pos was stored
    handled           \* history: messages handed to a registered handler

spscVars == <<shared, snd, rcv, built, wrote, handled>>

VARIABLES
    \* ---- receive_message on a ring that holds part of a message ----
    pring,            \* the unread cells of the ring
    pwriter,          \* the writing process: the message it is writing
    prx,              \* the consumer's receive_message call and its result
    ptime             \* the clock, in units of the shortest timeout

partVars == <<pring, pwriter, prx, ptime>>

VARIABLES
    \* ---- SharedMemoryMessage::next_id_ and the threads building messages ----
    id_counter,       \* next_id_, a uint32_t kept as two 16-bit halves
    builders,         \* per thread: the message it holds and what send said
    id_hist           \* history: ids handed out, in the order of fetch_add

idVars == <<id_counter, builders, id_hist>>

VARIABLES
    \* ---- one StreamReader over a byte buffer ----
    sreader           \* runtime, data_, position_ and the last read's record

readerVars == <<sreader>>

VARIABLES
    \* ---- one RingBuffer object used before, between and after create/close ----
    robj,             \* initialized_, the mapping pointers, the events
    region,           \* the shared memory: cursors and data cells
    ulast             \* the last call on the object and what it returned

useVars == <<robj, region, ulast>>

VARIABLES
    \* ---- one client whose connect is called again while connected ----
    rc,               \* class, connected_, socket_, mutex holder, open sockets
    rct               \* per thread: where it is in connect/disconnect/call

reconnVars == <<rc, rct>>

\* the parts modelled on their own
coreVars == <<ringVars, rpcVars, thrVars, msgVars, codecVars>>

restVars == <<regVars, maskVars, lifeVars, connVars, latchVars, frameVars, dispatchVars, hdrVars, mgrVars, spscVars, partVars, idVars, readerVars, useVars, reconnVars>>

outsideReg == <<coreVars, maskVars, lifeVars, connVars, latchVars, frameVars, dispatchVars, hdrVars, mgrVars, spscVars, partVars, idVars, readerVars, useVars, reconnVars>>

outsideMask == <<coreVars, regVars, lifeVars, connVars, latchVars, frameVars, dispatchVars, hdrVars, mgrVars, spscVars, partVars, idVars, readerVars, useVars, reconnVars>>

outsideLife == <<coreVars, regVars, maskVars, connVars, latchVars, frameVars, dispatchVars, hdrVars, mgrVars, spscVars, partVars, idVars, readerVars, useVars, reconnVars>>

outsideConn == <<coreVars, regVars, maskVars, lifeVars, latchVars, frameVars, dispatchVars, hdrVars, mgrVars, spscVars, partVars, idVars, readerVars, useVars, reconnVars>>

outsideLatch == <<coreVars, regVars, maskVars, lifeVars, connVars, frameVars, dispatchVars, hdrVars, mgrVars, spscVars, partVars, idVars, readerVars, useVars, reconnVars>>

outsideFrame == <<coreVars, regVars, maskVars, lifeVars, connVars, latchVars, dispatchVars, hdrVars, mgrVars, spscVars, partVars, idVars, readerVars, useVars, reconnVars>>

outsideDispatch == <<coreVars, regVars, maskVars, lifeVars, connVars, latchVars, frameVars, hdrVars, mgrVars, spscVars, partVars, idVars, readerVars, useVars, reconnVars>>

outsideHdr == <<coreVars, regVars, maskVars, lifeVars, connVars, latchVars, frameVars, dispatchVars, mgrVars, spscVars, partVars, idVars, readerVars, useVars, reconnVars>>

outsideMgr == <<coreVars, regVars, maskVars, lifeVars, connVars, latchVars, frameVars, dispatchVars, hdrVars, spscVars, partVars, idVars, readerVars, useVars, reconnVars>>

outsideSpsc == <<coreVars, regVars, maskVars, lifeVars, connVars, latchVars, frameVars, dispatchVars, hdrVars, mgrVars, partVars, idVars, readerVars, useVars, reconnVars>>

outsidePart == <<coreVars, regVars, maskVars, lifeVars, connVars, latchVars, frameVars, dispatchVars, hdrVars, mgrVars, spscVars, idVars, readerVars, useVars, reconnVars>>

outsideIds == <<coreVars, regVars, maskVars, lifeVars, connVars, latchVars, frameVars, dispatchVars, hdrVars, mgrVars, spscVars, partVars, readerVars, useVars, reconnVars>>

outsideReader == <<coreVars, regVars, maskVars, lifeVars, connVars, latchVars, frameVars, dispatchVars, hdrVars, mgrVars, spscVars, partVars, idVars, useVars, reconnVars>>

outsideUse == <<coreVars, regVars, maskVars, lifeVars, connVars, latchVars, frameVars, dispatchVars, hdrVars, mgrVars, spscVars, partVars, idVars, readerVars, reconnVars>>

outsideReconn == <<coreVars, regVars, maskVars, lifeVars, connVars, latchVars, frameVars, dispatchVars, hdrVars, mgrVars, spscVars, partVars, idVars, readerVars, useVars>>

\* what the actions of one part of the program leave alone
outsideRing == <<rpcVars, thrVars, msgVars, codecVars, restVars>>

outsideNet == <<ringVars, msgVars, codecVars, restVars>>

outsideMsg == <<ringVars, rpcVars, thrVars, codecVars, restVars>>

outsideCodec == <<ringVars, rpcVars, thrVars, msgVars, restVars>>

outsideRpc == <<outsideNet, thrVars>>

vars == <<coreVars, restVars>>

Min(a, b) == IF a < b THEN a ELSE b

Sizes == 0..MaxChunk

(***************************************************************************)
(* CrossProcessEvent (ring_buffer.cpp:18-105).  LinuxEvent is a counting   *)
(* semaphore (sem_post / sem_timedwait); WindowsEvent is an auto-reset     *)
(* event (SetEvent / WaitForSingleObject).                                 *)
(***************************************************************************)
signal(ev) ==
    IF platform = "win32" THEN 1
    ELSE IF ev < MaxSem THEN ev + 1 ELSE ev

\* a successful wait takes one pending signal
wait(ev) == IF platform = "win32" THEN 0 ELSE ev - 1

(***************************************************************************)
(* Address arithmetic of write, read and peek: a transfer of `size` bytes  *)
(* starting at virtual position `pos` is split into a first memcpy up to   *)
(* the end of the data region and a second one from its start.             *)
(***************************************************************************)
first_chunk(size, pos) == Min(size, Capacity - (pos % Capacity))

\* the second memcpy lands behind the first instead of at buffer_
write_index_second_misplaced(wp, size, i) ==
    IF i < first_chunk(size, wp) THEN (wp % Capacity) + i ELSE i

\* ring_buffer.cpp:207-222: physical index of byte i (0-based) of a write
write_index(wp, size, i) ==
    IF i < first_chunk(size, wp)
    THEN (wp % Capacity) + i
    ELSE i - first_chunk(size, wp)

\* ring_buffer.cpp:286-302, 332-345: physical index of byte i of a read/peek
read_index(rp, to_read, i) ==
    IF i < first_chunk(to_read, rp)
    THEN (rp % Capacity) + i
    ELSE i - first_chunk(to_read, rp)

\* the space check lets one byte too many through
HasSpaceOffByOne(size, wp, rp) == size <= Capacity - (wp - rp) + 1

\* ring_buffer.cpp:202-205: size > free_space  =>  return false
HasSpace(size, wp, rp) == size <= Capacity - (wp - rp)

\* skip without the check against the available bytes
CanSkipUnchecked(bytes, wp, rp) == TRUE

\* ring_buffer.cpp:360-363: bytes > available  =>  return false
CanSkip(bytes, wp, rp) == bytes <= wp - rp

\* a write_atomic that crosses the end of the region is let through
ContiguousOrWrapped(size, wp) == TRUE

\* ring_buffer.cpp:250: a write_atomic must not cross the end of the region
Contiguous(size, wp) == (wp % Capacity) + size <= Capacity

\* write_pos is stored before the payload is copied
PublishBeforeCopy(size) == 0

\* ring_buffer.cpp:216-225: write_pos is stored after `size` bytes are copied
PublishAfter(size) == size

\* read_pos is stored before the bytes are copied out
ConsumeBeforeCopy(to_read) == 0

\* ring_buffer.cpp:296-305: read_pos is stored after `to_read` bytes are copied
ConsumeAfter(to_read) == to_read

(***************************************************************************)
(* Producer: RingBuffer::write and RingBuffer::write_atomic                *)
(***************************************************************************)
\* the bytes handed to a write: each byte is labelled with its position in
\* the stream of written bytes (the code never inspects the bytes it copies)
Chunk(n) == [i \in 1..n |-> Len(written) + i]

ProdCall(op, n) ==
    [prod EXCEPT !.pc = "load", !.op = op, !.src = Chunk(n), !.ret = "none",
                 !.snap = buffer_,
                 !.lastFail = IF prod.ret = "true" THEN 0 ELSE @]

\* the locals of a call die when it returns
ProdReturn(ret, lastFail) ==
    [prod EXCEPT !.pc = "idle", !.src = <<>>, !.wp = 0, !.off = 0,
                 !.stored = FALSE, !.ret = ret, !.lastFail = lastFail]

\* ring_buffer.cpp:193-196: entry of write; size == 0 returns false
write_call(n) ==
    /\ prod.pc = "idle"
    /\ Len(written) + n <= MaxBytes
    /\ prod' = IF n = 0
               THEN [prod EXCEPT !.op = "write", !.ret = "false", !.snap = buffer_,
                                 !.lastFail = 0]
               ELSE ProdCall("write", n)
    /\ UNCHANGED outsideRing
    /\ UNCHANGED <<buffer_, write_pos, read_pos, data_ready, space_available,
                   platform, cons, written, readOut, skipped, writeSinceWait>>

\* ring_buffer.cpp:236: entry of write_atomic (no check of size or state)
write_atomic_call(n) ==
    /\ prod.pc = "idle"
    /\ Len(written) + n <= MaxBytes
    /\ prod' = ProdCall("write_atomic", n)
    /\ UNCHANGED outsideRing
    /\ UNCHANGED <<buffer_, write_pos, read_pos, data_ready, space_available,
                   platform, cons, written, readOut, skipped, writeSinceWait>>

\* ring_buffer.cpp:198-205 and 238-256: load both cursors, check the space
write_load ==
    /\ prod.pc = "load"
    /\ LET size == Len(prod.src)
           ok == /\ HasSpace(size, write_pos, read_pos)
                 /\ (prod.op = "write_atomic" => Contiguous(size, write_pos))
       IN prod' = IF ok
                  THEN [prod EXCEPT !.pc = "copy", !.wp = write_pos]
                  ELSE ProdReturn("false",
                                  IF prod.op = "write" THEN size ELSE 0)
    /\ UNCHANGED outsideRing
    /\ UNCHANGED <<buffer_, write_pos, read_pos, data_ready, space_available,
                   platform, cons, written, readOut, skipped, writeSinceWait>>

\* ring_buffer.cpp:211-222 and 252: the memcpy, one byte per step
write_copy ==
    /\ prod.pc = "copy"
    /\ prod.off < Len(prod.src)
    /\ prod.stored \/ prod.off # PublishAfter(Len(prod.src))
    /\ buffer_' = [buffer_ EXCEPT
                     ![write_index(prod.wp, Len(prod.src), prod.off)] =
                         prod.src[prod.off + 1]]
    /\ prod' = [prod EXCEPT !.off = @ + 1,
                            !.pc = IF prod.stored /\ prod.off + 1 = Len(prod.src)
                                   THEN "signal" ELSE "copy"]
    /\ UNCHANGED outsideRing
    /\ UNCHANGED <<write_pos, read_pos, data_ready, space_available,
                   platform, cons, written, readOut, skipped, writeSinceWait>>

\* ring_buffer.cpp:225-226, 258-259, 581-585: set_write_position, release
write_store ==
    /\ prod.pc = "copy"
    /\ ~prod.stored
    /\ prod.off = PublishAfter(Len(prod.src))
    /\ write_pos' = prod.wp + Len(prod.src)
    /\ written' = written \o prod.src
    /\ prod' = [prod EXCEPT !.stored = TRUE,
                            !.pc = IF prod.off = Len(prod.src)
                                   THEN "signal" ELSE "copy"]
    /\ UNCHANGED outsideRing
    /\ UNCHANGED <<buffer_, read_pos, data_ready, space_available,
                   platform, cons, readOut, skipped, writeSinceWait>>

\* ring_buffer.cpp:229-233, 261-265: data_ready_event_->signal(); return true
write_signal ==
    /\ prod.pc = "signal"
    /\ data_ready' = signal(data_ready)
    /\ prod' = ProdReturn("true", prod.lastFail)
    /\ writeSinceWait' = (writeSinceWait \/ cons.pc = "wait")
    /\ UNCHANGED outsideRing
    /\ UNCHANGED <<buffer_, write_pos, read_pos, space_available,
                   platform, cons, written, readOut, skipped>>

(***************************************************************************)
(* Consumer: RingBuffer::read, peek, skip and wait_for_data                *)
(***************************************************************************)
ConsCall(op, n) ==
    [cons EXCEPT !.pc = "load", !.op = op, !.size = n, !.ret = "none"]

\* the locals of a call die when it returns
ConsReturn(op, ret) ==
    [cons EXCEPT !.pc = "idle", !.op = op, !.size = 0, !.rp = 0,
                 !.to_read = 0, !.dst = <<>>, !.stored = FALSE, !.ret = ret]

\* ring_buffer.cpp:268-272 and 316-320: buffer_size == 0 returns false
read_call(op, n) ==
    /\ cons.pc = "idle"
    /\ op \in {"read", "peek"}
    /\ cons' = IF n = 0
               THEN ConsReturn(op, "false")
               ELSE ConsCall(op, n)
    /\ UNCHANGED outsideRing
    /\ UNCHANGED <<buffer_, write_pos, read_pos, data_ready, space_available,
                   platform, prod, written, readOut, skipped, writeSinceWait>>

\* ring_buffer.cpp:351-354
skip_call(n) ==
    /\ cons.pc = "idle"
    /\ cons' = ConsCall("skip", n)
    /\ UNCHANGED outsideRing
    /\ UNCHANGED <<buffer_, write_pos, read_pos, data_ready, space_available,
                   platform, prod, written, readOut, skipped, writeSinceWait>>

\* ring_buffer.cpp:274-286 and 322-332: load the cursors, bound the transfer
read_load ==
    /\ cons.pc = "load"
    /\ cons.op \in {"read", "peek"}
    /\ LET available == write_pos - read_pos
       IN cons' = IF available = 0
                  THEN ConsReturn(cons.op, "true")
                  ELSE [cons EXCEPT !.pc = "copy", !.rp = read_pos,
                                    !.to_read = Min(available, cons.size)]
    /\ UNCHANGED outsideRing
    /\ UNCHANGED <<buffer_, write_pos, read_pos, data_ready, space_available,
                   platform, prod, written, readOut, skipped, writeSinceWait>>

\* ring_buffer.cpp:356-363: skip fails when bytes > available
skip_load ==
    /\ cons.pc = "load"
    /\ cons.op = "skip"
    /\ cons' = IF CanSkip(cons.size, write_pos, read_pos)
               THEN [cons EXCEPT !.pc = "copy", !.rp = read_pos,
                                 !.to_read = cons.size]
               ELSE ConsReturn("skip", "false")
    /\ UNCHANGED outsideRing
    /\ UNCHANGED <<buffer_, write_pos, read_pos, data_ready, space_available,
                   platform, prod, written, readOut, skipped, writeSinceWait>>

\* ring_buffer.cpp:291-302 and 336-345: the memcpy out, one byte per step;
\* peek returns after its last byte (347-348)
read_copy ==
    /\ cons.pc = "copy"
    /\ cons.op \in {"read", "peek"}
    /\ Len(cons.dst) < cons.to_read
    /\ cons.op = "peek" \/ cons.stored \/ Len(cons.dst) # ConsumeAfter(cons.to_read)
    /\ LET i == Len(cons.dst)
           last == i + 1 = cons.to_read
           byte == buffer_[read_index(cons.rp, cons.to_read, i)]
       IN cons' = IF last /\ cons.op = "peek"
                  THEN ConsReturn("peek", "true")
                  ELSE [cons EXCEPT
                          !.dst = Append(@, byte),
                          !.pc = IF last /\ cons.stored THEN "signal"
                                 ELSE "copy"]
    /\ UNCHANGED outsideRing
    /\ UNCHANGED <<buffer_, write_pos, read_pos, data_ready, space_available,
                   platform, prod, written, readOut, skipped, writeSinceWait>>

\* ring_buffer.cpp:305-306, 365, 587-591: set_read_position
read_store ==
    /\ cons.pc = "copy"
    /\ ~cons.stored
    /\ \/ cons.op = "read" /\ Len(cons.dst) = ConsumeAfter(cons.to_read)
       \/ cons.op = "skip"
    /\ read_pos' = cons.rp + cons.to_read
    /\ skipped' = IF cons.op = "skip" THEN skipped + cons.to_read ELSE skipped
    /\ cons' = [cons EXCEPT !.stored = TRUE,
                            !.pc = IF cons.op = "skip" \/ Len(cons.dst) = cons.to_read
                                   THEN "signal" ELSE "copy"]
    /\ UNCHANGED outsideRing
    /\ UNCHANGED <<buffer_, write_pos, data_ready, space_available,
                   platform, prod, written, readOut, writeSinceWait>>

\* ring_buffer.cpp:309-313, 367-371: space_available_event_->signal();
\* the bytes copied by a read are handed to the caller
read_signal ==
    /\ cons.pc = "signal"
    /\ space_available' = signal(space_available)
    /\ readOut' = IF cons.op = "read" THEN readOut \o cons.dst ELSE readOut
    /\ cons' = ConsReturn(cons.op, "true")
    /\ UNCHANGED outsideRing
    /\ UNCHANGED <<buffer_, write_pos, read_pos, data_ready,
                   platform, prod, written, skipped, writeSinceWait>>

\* ring_buffer.cpp:411-419 with is_empty (403-405) and get_used_space (384-393)
wait_for_data_check ==
    /\ cons.pc = "idle"
    /\ cons' = IF write_pos - read_pos # 0
               THEN ConsReturn("wait_for_data", "true")
               ELSE [cons EXCEPT !.pc = "wait", !.op = "wait_for_data",
                                 !.ret = "none"]
    /\ writeSinceWait' = FALSE
    /\ UNCHANGED outsideRing
    /\ UNCHANGED <<buffer_, write_pos, read_pos, data_ready, space_available,
                   platform, prod, written, readOut, skipped>>

\* ring_buffer.cpp:422 with 33-36 / 71-83: the event wait takes a signal
wait_for_data_wake ==
    /\ cons.pc = "wait"
    /\ data_ready > 0
    /\ data_ready' = wait(data_ready)
    /\ cons' = ConsReturn("wait_for_data", "true")
    /\ UNCHANGED outsideRing
    /\ UNCHANGED <<buffer_, write_pos, read_pos, space_available,
                   platform, prod, written, readOut, skipped, writeSinceWait>>

\* ring_buffer.cpp:422 with 35 / 82: the timeout passes with no signal pending
wait_for_data_timeout ==
    /\ cons.pc = "wait"
    /\ data_ready = 0
    /\ cons' = ConsReturn("wait_for_data", "false")
    /\ UNCHANGED outsideRing
    /\ UNCHANGED <<buffer_, write_pos, read_pos, data_ready, space_available,
                   platform, prod, written, readOut, skipped, writeSinceWait>>

(***************************************************************************)
(* The ring buffer after a successful create (ring_buffer.cpp:131-150):    *)
(* cursors 0, a zero-filled mapping, no pending signal.                    *)
(***************************************************************************)
InitRing ==
    /\ buffer_ = [i \in 0..(Capacity - 1) |-> 0]
    /\ write_pos = 0
    /\ read_pos = 0
    /\ data_ready = 0
    /\ space_available = 0
    /\ platform \in {"linux", "win32"}
    /\ prod = [pc |-> "idle", op |-> "write", src |-> <<>>, wp |-> 0,
               off |-> 0, stored |-> FALSE, ret |-> "none",
               snap |-> [i \in 0..(Capacity - 1) |-> 0], lastFail |-> 0]
    /\ cons = [pc |-> "idle", op |-> "read", size |-> 0, rp |-> 0,
               to_read |-> 0, dst |-> <<>>, stored |-> FALSE, ret |-> "none"]
    /\ written = <<>>
    /\ readOut = <<>>
    /\ skipped = 0
    /\ writeSinceWait = FALSE

Producer ==
    \/ \E n \in Sizes : write_call(n)
    \/ \E n \in Sizes : write_atomic_call(n)
    \/ write_load
    \/ write_copy
    \/ write_store
    \/ write_signal

Consumer ==
    \/ \E op \in {"read", "peek"}, n \in Sizes : read_call(op, n)
    \/ \E n \in Sizes : skip_call(n)
    \/ read_load
    \/ skip_load
    \/ read_copy
    \/ read_store
    \/ read_signal
    \/ wait_for_data_check
    \/ wait_for_data_wake
    \/ wait_for_data_timeout

NextRing == Producer \/ Consumer

(***************************************************************************)
(* Bytes on the wire.  Integers are copied with memcpy on a little-endian  *)
(* machine; a frame is a u32 length followed by that many bytes.           *)
(***************************************************************************)
\* serialization.cpp:268-272
write_int32(n) ==
    <<n % 256, (n \div 256) % 256, (n \div 65536) % 256, (n \div 16777216) % 256>>

\* the u32 stored at bytes[i .. i+3] (i counted from 1)
u32(bytes, i) ==
    bytes[i] + 256 * bytes[i + 1] + 65536 * bytes[i + 2] + 16777216 * bytes[i + 3]

\* serialization.cpp:329-337: throws "Buffer underflow" on fewer than 4 bytes
read_int32_throws(bytes) == Len(bytes) < 4

\* the int32 stored at bytes[i .. i+3]: two's complement
s32(bytes, i) ==
    bytes[i] + 256 * bytes[i + 1] + 65536 * bytes[i + 2]
        + 16777216 * (IF bytes[i + 3] >= 128 THEN bytes[i + 3] - 256
                      ELSE bytes[i + 3])

read_int32(bytes) == s32(bytes, 1)

\* serialization.cpp:304-309
write_string(str) == write_int32(Len(str)) \o str

\* a length prefix and the body, as every sender of the transport writes it
Frame(body) == write_int32(Len(body)) \o body

\* every byte in flight carries the serial number of the call it belongs to
Tag(bytes, k) == [i \in 1..Len(bytes) |-> [b |-> bytes[i], k |-> k]]

Bytes(ch) == [i \in 1..Len(ch) |-> ch[i].b]

Tags(ch) == {ch[i].k : i \in 1..Len(ch)}

Drop(ch, n) == SubSeq(ch, n + 1, Len(ch))

\* a blocking receive of a length prefix and its body can complete
FrameReady(ch) == Len(ch) >= 4 /\ Len(ch) >= 4 + u32(Bytes(ch), 1)

FrameLen(ch) == u32(Bytes(ch), 1)

(***************************************************************************)
(* The application on the server: service "T" with the unary method "E",   *)
(* the async method "A" and the stream method "S", all taking an int32.    *)
(***************************************************************************)
services_ == {<<84>>}

methods_ == {<<69>>}

async_methods_ == {<<65>>}

stream_methods_ == {<<83>>}

\* the user's handler of T.E and T.A
h(v) == v + 1

Int32HashCode == 101

\* serialization.cpp:33-44: the types with a handler in the registry
handlers_ == {"int32"}

\* serialization.cpp:15-19
get_handler(type) == type \in handlers_

\* serialization.cpp:318-320, 46-52, 61-64: the registered handler writes the
\* value; nothing else is written
write_object(v) == write_int32(v)

\* server.h:128-147 and 149-169: decode the request, call the user method,
\* encode the response
register_method_wrapper(request_bytes) ==
    IF ~get_handler("int32") \/ read_int32_throws(request_bytes)
    THEN [throws |-> TRUE, bytes |-> <<>>]
    ELSE [throws |-> FALSE,
          bytes |-> write_object(h(read_int32(request_bytes)))]

\* server.h:171-186: decode the request, hand it to the user's stream method
register_stream_method_throws(request_bytes) ==
    ~get_handler("int32") \/ read_int32_throws(request_bytes)

\* the frames a service's StreamResponseReader may yield: int32 items 5 and 0
FrameBodies == {write_int32(5), write_int32(0)}

StreamItems == UNION {[1..n -> FrameBodies] : n \in 0..MaxFrames}

(***************************************************************************)
(* Server: one iteration of TcpRpcServer::handle_client                    *)
(***************************************************************************)
\* server.cpp:249-255
is_printable_ascii(bytes) == \A i \in 1..Len(bytes) : bytes[i] \in 32..126

\* server.cpp:285-290: length of the printable prefix of the payload
PrintablePrefix(payload) ==
    CHOOSE i \in 0..Len(payload) :
        /\ is_printable_ascii(SubSeq(payload, 1, i))
        /\ i = Len(payload) \/ payload[i + 1] \notin 32..126

\* server.cpp:274-282: the payload is taken as format A
FormatA(payload) ==
    /\ Len(payload) >= 4
    /\ u32(payload, 1) > 0
    /\ 4 + u32(payload, 1) <= Len(payload)
    /\ is_printable_ascii(SubSeq(payload, 5, 4 + u32(payload, 1)))

\* server.cpp:271-293: format A (u32 method length), else format B
ParseRequest(payload) ==
    LET mlen == u32(payload, 1)
        formatA == FormatA(payload)
        i == PrintablePrefix(payload)
    IN IF formatA
       THEN [method_name |-> SubSeq(payload, 5, 4 + mlen),
             request_bytes |-> SubSeq(payload, 5 + mlen, Len(payload))]
       ELSE [method_name |-> SubSeq(payload, 1, i),
             request_bytes |-> SubSeq(payload, i + 1, Len(payload))]

\* server.cpp:389-395: split at the first '.'
parse_method_name(method) ==
    LET dots == {i \in 1..Len(method) : method[i] = 46}
        dot_pos == CHOOSE i \in dots : \A j \in dots : i <= j
    IN IF dots = {}
       THEN <<method, <<>>>>
       ELSE <<SubSeq(method, 1, dot_pos - 1),
              SubSeq(method, dot_pos + 1, Len(method))>>

\* server.cpp:318-334: the loop over the service's reader.  The reader ends
\* either by has_more() turning false or by returning an empty frame, which
\* the loop sends and breaks on; the loop is followed by one more zero.
RECURSIVE stream_loop(_, _)
stream_loop(items, endsByEmpty) ==
    IF items = <<>>
    THEN IF endsByEmpty THEN write_int32(0) ELSE <<>>
    ELSE Frame(Head(items)) \o stream_loop(Tail(items), endsByEmpty)

\* what a user method or a service's reader may do in one request: return,
\* throw from the method (server.h:142, 164, 182), or throw from read_next
\* after the reader has yielded its items (server.cpp:321)
Faults == {"none", "method", "reader"}

\* server.cpp:295-375: the handler returned: what it sent, and the loop
\* goes on
handler_returned(sent) == [out |-> sent, serving |-> TRUE]

\* server.cpp:382-386: the catch clause around the request loop writes
\* nothing and leaves the loop; the socket is closed
catch_outside_loop(sent) == [out |-> sent, serving |-> FALSE]

\* server.cpp:376-380: the catch clause inside the request loop writes one
\* empty frame after whatever the handler had sent, and the loop goes on
catch_exception(sent) == [out |-> sent \o write_int32(0), serving |-> TRUE]

\* server.cpp:295-381: everything the server sends for one request payload
Respond(payload, items, endsByEmpty, fault) ==
    LET req == ParseRequest(payload)
        method_pair == parse_method_name(req.method_name)
        service_name == method_pair[1]
        method == method_pair[2]
        unary == register_method_wrapper(req.request_bytes)
    IN IF service_name \notin services_
       THEN handler_returned(write_int32(0))
       ELSE IF method \in stream_methods_
       THEN IF register_stream_method_throws(req.request_bytes)
               \/ fault = "method"
            THEN catch_exception(<<>>)
            ELSE IF fault = "reader"
            THEN catch_exception(stream_loop(items, FALSE))
            ELSE handler_returned(stream_loop(items, endsByEmpty)
                                     \o write_int32(0))
       ELSE IF method \in methods_ \/ method \in async_methods_
       THEN IF unary.throws \/ fault = "method"
            THEN catch_exception(<<>>)
            ELSE handler_returned(Frame(unary.bytes))
       ELSE handler_returned(<<>>)

\* the request is one that reaches a user method: a registered unary, async
\* or stream method of a registered service with a request that decodes
CallsMethod(payload) ==
    LET req == ParseRequest(payload)
        method_pair == parse_method_name(req.method_name)
    IN /\ method_pair[1] \in services_
       /\ method_pair[2] \in (stream_methods_ \cup methods_ \cup async_methods_)
       /\ ~register_stream_method_throws(req.request_bytes)

\* the request is one that reaches the service's stream reader
Streams(payload) ==
    LET req == ParseRequest(payload)
        method_pair == parse_method_name(req.method_name)
    IN /\ method_pair[1] \in services_
       /\ method_pair[2] \in stream_methods_
       /\ ~register_stream_method_throws(req.request_bytes)

\* server.cpp:261-381: receive one request, dispatch it, send the answer
handle_client ==
    /\ worker = "serving"
    /\ FrameReady(c2s)
    /\ LET payload_length == FrameLen(c2s)
           payload == Bytes(SubSeq(c2s, 5, 4 + payload_length))
           k == c2s[1].k
           req == ParseRequest(payload)
           streams == payload_length > 0 /\ Streams(payload)
           calls == payload_length > 0 /\ CallsMethod(payload)
       IN \E items \in (IF streams THEN StreamItems ELSE {<<>>}),
             endsByEmpty \in (IF streams THEN BOOLEAN ELSE {FALSE}),
             fault \in (IF calls THEN Faults ELSE {"none"}) :
            /\ fault = "method" => items = <<>> /\ ~endsByEmpty
            /\ fault = "reader" => streams /\ ~endsByEmpty
            /\ LET done == IF payload_length = 0 THEN handler_returned(<<>>)
                           ELSE Respond(payload, items, endsByEmpty, fault)
                   out == done.out
               IN /\ s2c' = s2c \o Tag(out, k)
                  /\ worker' = IF done.serving THEN "serving" ELSE "closed"
                  /\ served' = [k |-> k,
                                method_name |-> req.method_name,
                                request_bytes |-> req.request_bytes,
                                items |-> items,
                                fault |-> fault,
                                out |-> out]
            /\ c2s' = Drop(c2s, 4 + payload_length)
    /\ UNCHANGED <<cli, nextCall>>
    /\ UNCHANGED outsideRpc

(***************************************************************************)
(* Client: TcpRpcClientAsync and the TcpStreamResponseReader it hands out  *)
(***************************************************************************)
UnaryNames == {<<84, 46, 69>>, <<84, 46, 65>>, <<84, 46, 78>>, <<88, 46, 69>>}

StreamNames == {<<84, 46, 83>>}

Requests == {write_int32(0), write_int32(1), <<7>>}

\* client.cpp:431
MAX_FRAME_SIZE == 10 * 1024 * 1024

\* client.cpp:388-390
has_more(reader) ==
    ~reader.stream_ended /\ ~reader.connection_closed /\ ~reader.has_error

NewReader ==
    [stream_ended |-> FALSE, has_error |-> FALSE, connection_closed |-> FALSE]

\* client.cpp:272-294 and 238-254: the request goes out as one frame
SendRequest(method, request) ==
    /\ nextCall <= MaxCalls
    /\ c2s' = c2s \o Tag(Frame(write_string(method) \o request), nextCall)
    /\ nextCall' = nextCall + 1

\* client.cpp:272-294: make_rpc_call takes the mutex and sends
make_rpc_call_send(method, request) ==
    /\ cli.pc = "idle"
    /\ SendRequest(method, request)
    /\ cli' = [pc |-> "recv", kind |-> "unary", k |-> nextCall,
               method |-> method, request |-> request, response |-> <<>>,
               respTags |-> {}, frames |-> <<>>, reader |-> cli.reader]
    /\ UNCHANGED <<s2c, served, worker>>
    /\ UNCHANGED outsideRpc

\* client.cpp:296-315: make_rpc_call receives one frame and returns its body
make_rpc_call_recv ==
    /\ cli.pc = "recv"
    /\ FrameReady(s2c)
    /\ LET response_length == FrameLen(s2c)
       IN /\ cli' = [cli EXCEPT
                       !.pc = "idle",
                       !.response = Bytes(SubSeq(s2c, 5, 4 + response_length)),
                       !.respTags = Tags(SubSeq(s2c, 1, 4 + response_length))]
          /\ s2c' = Drop(s2c, 4 + response_length)
    /\ UNCHANGED <<c2s, served, nextCall, worker>>
    /\ UNCHANGED outsideRpc

\* client.cpp:220-235: stream_async sends the request and returns a reader
stream_async(method, request) ==
    /\ cli.pc = "idle"
    /\ SendRequest(method, request)
    /\ cli' = [pc |-> "stream", kind |-> "stream", k |-> nextCall,
               method |-> method, request |-> request, response |-> <<>>,
               respTags |-> {}, frames |-> <<>>, reader |-> NewReader]
    /\ UNCHANGED <<s2c, served, worker>>
    /\ UNCHANGED outsideRpc

\* client.cpp:334-386 with read_next_frame (405-452) and mark_error
\* (454-458): the caller's loop `while (has_more()) read_next()`
read_next ==
    /\ cli.pc = "stream"
    /\ has_more(cli.reader)
    /\ FrameReady(s2c)
    /\ LET frame_length == FrameLen(s2c)
           too_big == frame_length > MAX_FRAME_SIZE
           frame_data == IF frame_length = 0 THEN write_int32(0)
                         ELSE Bytes(SubSeq(s2c, 5, 4 + frame_length))
           marker == Len(frame_data) = 4 /\ u32(frame_data, 1) = 0
           taken == IF too_big THEN 4 ELSE 4 + frame_length
       IN /\ s2c' = Drop(s2c, taken)
          /\ cli' = [cli EXCEPT
                       !.reader.stream_ended = too_big \/ marker,
                       !.reader.has_error = too_big,
                       !.frames = IF too_big \/ marker THEN @
                                  ELSE Append(@, frame_data),
                       !.respTags = @ \cup Tags(SubSeq(s2c, 1, taken)),
                       !.pc = IF too_big \/ marker THEN "idle" ELSE "stream"]
    /\ UNCHANGED <<c2s, served, nextCall, worker>>
    /\ UNCHANGED outsideRpc

(***************************************************************************)
(* Client shared by threads: call_async tasks and stream_async callers     *)
(***************************************************************************)
Threads == 1..NumThreads

\* the calls the threads make: "T.E" and "X.E" with the int32 request 1,
\* and the stream "T.S" with the same request
SharedCallNames == {<<84, 46, 69>>, <<88, 46, 69>>}

SharedRequest == write_int32(1)

\* the critical section ends with the send: the mutex is free again
lock_released_after_send(t) == 0

\* client.cpp:273: the lock_guard of make_rpc_call lives until the function
\* returns, so the mutex is still held by t after the request is sent
lock_guard_scope(t) == t

\* client.cpp:214-218 and 273: a call_async task enters make_rpc_call and
\* waits for the mutex
call_async(t) ==
    /\ thr[t].pc = "idle"
    /\ nextCall <= MaxCalls
    /\ thr' = [thr EXCEPT ![t] = [pc |-> "lock", kind |-> "unary", k |-> 0,
                                  respTags |-> {}, frames |-> <<>>,
                                  reader |-> NewReader]]
    /\ UNCHANGED <<c2s, s2c, cli, served, nextCall, worker, socket_mutex_>>
    /\ UNCHANGED outsideNet

\* client.cpp:273-294: the task gets the mutex and sends its request
make_rpc_call_locked(t, method) ==
    /\ thr[t].pc = "lock"
    /\ thr[t].kind = "unary"
    /\ socket_mutex_ = 0
    /\ SendRequest(method, SharedRequest)
    /\ socket_mutex_' = lock_guard_scope(t)
    /\ thr' = [thr EXCEPT ![t].pc = "recv", ![t].k = nextCall]
    /\ UNCHANGED <<s2c, cli, served, worker>>
    /\ UNCHANGED outsideNet

\* client.cpp:296-316: the task receives one frame, returns its body and
\* the lock_guard releases the mutex
make_rpc_call_return(t) ==
    /\ thr[t].pc = "recv"
    /\ FrameReady(s2c)
    /\ LET response_length == FrameLen(s2c)
       IN /\ thr' = [thr EXCEPT
                       ![t].pc = "idle",
                       ![t].respTags = Tags(SubSeq(s2c, 1, 4 + response_length))]
          /\ s2c' = Drop(s2c, 4 + response_length)
    /\ socket_mutex_' = IF socket_mutex_ = t THEN 0 ELSE socket_mutex_
    /\ UNCHANGED <<c2s, cli, served, nextCall, worker>>
    /\ UNCHANGED outsideNet

\* client.cpp:220-221: a thread enters stream_async and waits for the mutex
stream_async_enter(t) ==
    /\ thr[t].pc = "idle"
    /\ nextCall <= MaxCalls
    /\ thr' = [thr EXCEPT ![t] = [pc |-> "lock", kind |-> "stream", k |-> 0,
                                  respTags |-> {}, frames |-> <<>>,
                                  reader |-> NewReader]]
    /\ UNCHANGED <<c2s, s2c, cli, served, nextCall, worker, socket_mutex_>>
    /\ UNCHANGED outsideNet

\* client.cpp:221-235: the thread gets the mutex, sends the stream request,
\* makes the reader and returns; the lock_guard releases the mutex
stream_async_locked(t) ==
    /\ thr[t].pc = "lock"
    /\ thr[t].kind = "stream"
    /\ socket_mutex_ = 0
    /\ SendRequest(<<84, 46, 83>>, SharedRequest)
    /\ thr' = [thr EXCEPT ![t].pc = "stream", ![t].k = nextCall,
                          ![t].reader = NewReader]
    /\ UNCHANGED <<s2c, cli, served, worker, socket_mutex_>>
    /\ UNCHANGED outsideNet

\* client.cpp:334-386: read_next of the reader the thread holds; the mutex
\* it locks (335) is the reader's own member, not the client's
reader_read_next(t) ==
    /\ thr[t].pc = "stream"
    /\ has_more(thr[t].reader)
    /\ FrameReady(s2c)
    /\ LET frame_length == FrameLen(s2c)
           too_big == frame_length > MAX_FRAME_SIZE
           frame_data == IF frame_length = 0 THEN write_int32(0)
                         ELSE Bytes(SubSeq(s2c, 5, 4 + frame_length))
           marker == Len(frame_data) = 4 /\ u32(frame_data, 1) = 0
           taken == IF too_big THEN 4 ELSE 4 + frame_length
       IN /\ s2c' = Drop(s2c, taken)
          /\ thr' = [thr EXCEPT
                       ![t].reader.stream_ended = too_big \/ marker,
                       ![t].reader.has_error = too_big,
                       ![t].frames = IF too_big \/ marker THEN @
                                     ELSE Append(@, frame_data),
                       ![t].respTags = @ \cup Tags(SubSeq(s2c, 1, taken)),
                       ![t].pc = IF too_big \/ marker THEN "idle" ELSE "stream"]
    /\ UNCHANGED <<c2s, cli, served, nextCall, worker, socket_mutex_>>
    /\ UNCHANGED outsideNet

\* no thread is inside the client and the mutex is free
InitThreads ==
    /\ thr = [t \in Threads |->
                [pc |-> "idle", kind |-> "none", k |-> 0, respTags |-> {},
                 frames |-> <<>>, reader |-> NewReader]]
    /\ socket_mutex_ = 0

\* threads that only make unary calls
NextCalls ==
    \/ \E t \in Threads : call_async(t)
    \/ \E t \in Threads, method \in SharedCallNames :
          make_rpc_call_locked(t, method)
    \/ \E t \in Threads : make_rpc_call_return(t)
    \/ handle_client

\* threads that make unary calls and stream calls
NextShared ==
    \/ NextCalls
    \/ \E t \in Threads : stream_async_enter(t)
    \/ \E t \in Threads : stream_async_locked(t)
    \/ \E t \in Threads : reader_read_next(t)

\* a connected client and a server worker with nothing in flight
InitRpc ==
    /\ c2s = <<>>
    /\ s2c = <<>>
    /\ cli = [pc |-> "idle", kind |-> "none", k |-> 0, method |-> <<>>,
              request |-> <<>>, response |-> <<>>, respTags |-> {},
              frames |-> <<>>, reader |-> NewReader]
    /\ served = [k |-> 0, method_name |-> <<>>, request_bytes |-> <<>>,
                 items |-> <<>>, fault |-> "none", out |-> <<>>]
    /\ nextCall = 1
    /\ worker = "serving"

NextRpc ==
    \/ \E method \in UnaryNames, request \in Requests :
          make_rpc_call_send(method, request)
    \/ make_rpc_call_recv
    \/ \E method \in StreamNames, request \in Requests :
          stream_async(method, request)
    \/ read_next
    \/ handle_client

\* calls that reach a handler: the unary "T.E", the async "T.A" and the
\* stream "T.S", with a request that decodes and one that does not
ServedNames == {<<84, 46, 69>>, <<84, 46, 65>>}

ServedRequests == {write_int32(1), <<7>>}

\* the client of NextRpc making only those calls
NextServed ==
    \/ \E method \in ServedNames, request \in ServedRequests :
          make_rpc_call_send(method, request)
    \/ make_rpc_call_recv
    \/ \E method \in StreamNames, request \in ServedRequests :
          stream_async(method, request)
    \/ read_next
    \/ handle_client

(***************************************************************************)
(* SharedMemoryManager: messages over the ring buffer.  The ring is the     *)
(* FIFO of its unread cells; a cell is one header field or one payload      *)
(* byte, and every size is counted in cells.                                *)
(***************************************************************************)
\* shared_memory_manager.h:15-22: the fields of MessageHeader that carry
\* information (flags is always 0 and reserved is never read)
HeaderFields == <<"message_id", "message_type", "payload_size", "timestamp">>

HeaderSize == Len(HeaderFields)

\* shared_memory_manager.h:27
DATA == 1

\* shared_memory_manager.h:29
HEARTBEAT == 3

\* the payloads the application sends: 0..MaxPayload cells of value 9
Payloads == {[i \in 1..n |-> 9] : n \in 0..MaxPayload}

\* shared_memory_manager.cpp:16-27
SharedMemoryMessage(type, data) ==
    [message_id |-> next_id_, message_type |-> type,
     payload_size |-> Len(data), timestamp |-> now, payload |-> data]

\* shared_memory_manager.cpp:38-50
serialize(message) ==
    <<message.message_id, message.message_type, message.payload_size,
      message.timestamp>> \o message.payload

\* shared_memory_manager.cpp:52-69: the payload is everything after the
\* header, up to the end of the data handed in
deserialize(data) ==
    IF Len(data) < HeaderSize
    THEN [ok |-> FALSE]
    ELSE IF data[3] > Len(data) - HeaderSize
    THEN [ok |-> FALSE]
    ELSE [ok |-> TRUE, message_id |-> data[1], message_type |-> data[2],
          payload_size |-> data[3], timestamp |-> data[4],
          payload |-> SubSeq(data, HeaderSize + 1, Len(data))]

\* ring_buffer.cpp:316-349 as receive_message calls it (193-198): the
\* unread cells, at most max_message_size of them
peek_message_cells == SubSeq(mring, 1, Min(Len(mring), MaxMessageCells))

\* shared_memory_manager.cpp:147-170: the message is written whole, or not
\* at all when it is too long or the ring has no room for it
SendSucceeds(message) ==
    /\ message.message_id # 0
    /\ message.payload_size <= MaxMessageCells
    /\ Len(serialize(message)) <= MaxMessageCells
    /\ Len(serialize(message)) <= RingCells - Len(mring)

\* shared_memory_manager.cpp:177-180 and 147-175: build a message (which
\* takes the next id) and send it
SendNew(type, data) ==
    LET message == SharedMemoryMessage(type, data)
    IN /\ next_id_' = next_id_ + 1
       /\ IF SendSucceeds(message)
          THEN /\ mring' = mring \o serialize(message)
               /\ sentLog' = Append(sentLog,
                                [message EXCEPT !.timestamp = 0] @@
                                [at |-> msgHist.consumed + Len(mring)])
          ELSE UNCHANGED <<mring, sentLog>>

\* shared_memory_manager.cpp:79-98: the producer creates the ring and
\* starts its heartbeat thread
start_producer ==
    /\ mgr.producer = "idle"
    /\ mgr' = [mgr EXCEPT !.producer = "running", !.hbDue = now]
    /\ UNCHANGED <<mring, next_id_, last_heartbeat_, now, wfh, sentLog,
                   recvIds, lastRecv, msgHist>>
    /\ UNCHANGED outsideMsg

\* shared_memory_manager.cpp:100-119: the consumer opens the existing ring
\* and starts its worker thread
start_consumer ==
    /\ mgr.consumer = "idle"
    /\ mgr.producer # "idle"
    /\ mgr' = [mgr EXCEPT !.consumer = "running"]
    /\ UNCHANGED <<mring, next_id_, last_heartbeat_, now, wfh, sentLog,
                   recvIds, lastRecv, msgHist>>
    /\ UNCHANGED outsideMsg

\* shared_memory_manager.cpp:121-145 on the producer: its threads end; the
\* consumer keeps its mapping of the ring
stop ==
    /\ mgr.producer = "running"
    /\ mgr' = [mgr EXCEPT !.producer = "stopped"]
    /\ UNCHANGED <<mring, next_id_, last_heartbeat_, now, wfh, sentLog,
                   recvIds, lastRecv, msgHist>>
    /\ UNCHANGED outsideMsg

\* shared_memory_manager.cpp:177-180: the application sends a DATA message
send_message(data) ==
    /\ mgr.producer = "running"
    /\ msgHist.data < MaxData
    /\ SendNew(DATA, data)
    /\ msgHist' = [msgHist EXCEPT !.data = @ + 1]
    /\ UNCHANGED <<mgr, last_heartbeat_, now, wfh, recvIds, lastRecv>>
    /\ UNCHANGED outsideMsg

\* shared_memory_manager.cpp:376-386 with send_heartbeat (322-324): the
\* heartbeat thread sends a HEARTBEAT and sleeps for one interval
heartbeat_thread ==
    /\ mgr.producer = "running"
    /\ mgr.hbDue <= now
    /\ SendNew(HEARTBEAT, <<>>)
    /\ mgr' = [mgr EXCEPT !.hbDue = now + HeartbeatInterval]
    /\ msgHist' = [msgHist EXCEPT !.heartbeat = now]
    /\ UNCHANGED <<last_heartbeat_, now, wfh, recvIds, lastRecv>>
    /\ UNCHANGED outsideMsg

\* the message whose first cell is the first one at or after the read
\* position: the oldest unread message
OldestUnread ==
    LET unread == {i \in 1..Len(sentLog) : sentLog[i].at >= msgHist.consumed}
        i == CHOOSE j \in unread : \A l \in unread : j <= l
    IN IF unread = {} THEN [message_id |-> 0] ELSE sentLog[i]

\* receive_message has data to return
ReceiveSucceeds ==
    /\ mgr.consumer = "running"
    /\ mring # <<>>
    /\ deserialize(peek_message_cells).ok

\* shared_memory_manager.cpp:182-220 with process_message (388-409), as
\* the consumer's worker thread (366-372) or the application calls it:
\* peek, deserialize what was peeked, skip what was peeked
receive_message ==
    /\ ReceiveSucceeds
    /\ LET bytes_read == Len(peek_message_cells)
           message == deserialize(peek_message_cells)
       IN /\ mring' = SubSeq(mring, bytes_read + 1, Len(mring))
          /\ msgHist' = [msgHist EXCEPT !.consumed = @ + bytes_read]
          /\ recvIds' = Append(recvIds, message.message_id)
          /\ lastRecv' = [n |-> Len(recvIds) + 1,
                          message_id |-> message.message_id,
                          message_type |-> message.message_type,
                          payload_size |-> message.payload_size,
                          payload |-> message.payload,
                          advanced |-> bytes_read,
                          queued |-> Cardinality({i \in 1..Len(sentLog) :
                                        sentLog[i].at >= msgHist.consumed}),
                          oldest |-> OldestUnread]
          /\ last_heartbeat_' = IF message.message_type = HEARTBEAT
                                THEN message.timestamp ELSE last_heartbeat_
    /\ UNCHANGED <<next_id_, mgr, now, wfh, sentLog>>
    /\ UNCHANGED outsideMsg

\* the timeout the consumer passes to wait_for_heartbeat: three intervals
Timeout == 3 * HeartbeatInterval

\* shared_memory_manager.cpp:326-327: the consumer calls wait_for_heartbeat
wait_for_heartbeat_call ==
    /\ mgr.consumer = "running"
    /\ wfh.pc # "polling"
    /\ wfh' = [pc |-> "polling", start |-> now, ret |-> FALSE,
               producer |-> mgr.producer,
               stale |-> /\ mgr.producer = "stopped"
                         /\ now - msgHist.heartbeat > Timeout]
    /\ UNCHANGED <<mring, next_id_, mgr, last_heartbeat_, now, sentLog,
                   recvIds, lastRecv, msgHist>>
    /\ UNCHANGED outsideMsg

\* the poll finds a recent heartbeat
RecentHeartbeat ==
    last_heartbeat_ > 0 /\ now - last_heartbeat_ < Timeout

\* shared_memory_manager.cpp:329-350: one round of the polling loop that
\* ends the call
wait_for_heartbeat_return ==
    /\ wfh.pc = "polling"
    /\ RecentHeartbeat \/ now - wfh.start >= Timeout
    /\ wfh' = [wfh EXCEPT !.pc = "done", !.ret = RecentHeartbeat]
    /\ UNCHANGED <<mring, next_id_, mgr, last_heartbeat_, now, sentLog,
                   recvIds, lastRecv, msgHist>>
    /\ UNCHANGED outsideMsg

\* time passes when no thread has something to do at the present time: the
\* heartbeat thread is asleep, the consumer's worker has nothing to
\* receive and the polling loop has no reason to return
tick ==
    /\ now < MaxTime
    /\ mgr.producer # "idle"
    /\ ~(mgr.producer = "running" /\ mgr.hbDue <= now)
    /\ ~ReceiveSucceeds
    /\ ~(wfh.pc = "polling" /\ (RecentHeartbeat \/ now - wfh.start >= Timeout))
    /\ now' = now + 1
    /\ UNCHANGED <<mring, next_id_, mgr, last_heartbeat_, wfh, sentLog,
                   recvIds, lastRecv, msgHist>>
    /\ UNCHANGED outsideMsg

\* shared_memory_manager.cpp:10 and shared_memory_manager.h:176-186: no
\* manager started, no message built, an empty ring
InitMsg ==
    /\ mring = <<>>
    /\ next_id_ = 1
    /\ mgr = [producer |-> "idle", consumer |-> "idle", hbDue |-> 0]
    /\ last_heartbeat_ = 0
    /\ now = 1
    /\ wfh = [pc |-> "idle", start |-> 0, ret |-> FALSE,
              producer |-> "idle", stale |-> FALSE]
    /\ sentLog = <<>>
    /\ recvIds = <<>>
    /\ lastRecv = [n |-> 0]
    /\ msgHist = [consumed |-> 0, data |-> 0, heartbeat |-> 0]

NextMsg ==
    \/ start_producer
    \/ start_consumer
    \/ stop
    \/ \E data \in Payloads : send_message(data)
    \/ heartbeat_thread
    \/ receive_message
    \/ wait_for_heartbeat_call
    \/ wait_for_heartbeat_return
    \/ tick

(***************************************************************************)
(* Request framing applied to one method name and one body                 *)
(***************************************************************************)
RECURSIVE SeqsUpTo(_, _)
SeqsUpTo(S, n) ==
    IF n = 0 THEN {<<>>}
    ELSE SeqsUpTo(S, n - 1) \cup
         {Append(q, x) : q \in {r \in SeqsUpTo(S, n - 1) : Len(r) = n - 1},
                         x \in S}

\* method names over 'T' and '.', the empty name among them
FramedNames == SeqsUpTo({84, 46}, MaxName)

\* request bodies over a zero byte and the printable byte 'A'
FramedBodies == SeqsUpTo({0, 65}, MaxBody)

\* client.cpp:106-114 and 277-286: length-prefixed method name, then the
\* request; the legacy client sent the bare name followed by the request
ClientPayload(method, body, legacy) ==
    IF legacy THEN method \o body ELSE write_string(method) \o body

\* client.cpp:106-119 and server.cpp:264-293: a client frames a request and
\* the server parses the payload
frame_and_parse(method, body, legacy) ==
    /\ Len(ClientPayload(method, body, legacy)) > 0
    /\ LET payload == ClientPayload(method, body, legacy)
       IN framed' = [n |-> 1, method |-> method, body |-> body,
                     legacy |-> legacy,
                     format |-> IF FormatA(payload) THEN "A" ELSE "B",
                     method_name |-> ParseRequest(payload).method_name,
                     request_bytes |-> ParseRequest(payload).request_bytes]
    /\ UNCHANGED coded
    /\ UNCHANGED outsideCodec

(***************************************************************************)
(* StreamWriter and StreamReader.  Two translation units of the repository *)
(* define them, serialization.cpp and rpc_core.cpp; a build links one.     *)
(* A read returns whether it throws, the value and the bytes it consumed.  *)
(***************************************************************************)
Runtimes == {"serialization.cpp", "rpc_core.cpp"}

Returned(value, consumed) ==
    [throws |-> FALSE, value |-> value, consumed |-> consumed]

\* serialization.cpp:331 and rpc_core.cpp:183: the read throws
Thrown == [throws |-> TRUE, value |-> 0, consumed |-> 0]

\* serialization.cpp:274-278 and rpc_core.cpp:120-123: eight bytes, little
\* endian, of a value within the int32 range (the upper half is its sign)
write_int64(n) ==
    write_int32(n) \o (IF n < 0 THEN <<255, 255, 255, 255>> ELSE <<0, 0, 0, 0>>)

\* serialization.cpp:339-347 and rpc_core.cpp:190-197
read_int64(bytes) ==
    IF Len(bytes) < 8 THEN Thrown ELSE Returned(s32(bytes, 1), 8)

\* serialization.cpp:280-284 and rpc_core.cpp:125-128
write_uint32(n) == write_int32(n)

\* serialization.cpp:349-357 and rpc_core.cpp:199-206
read_uint32(bytes) ==
    IF Len(bytes) < 4 THEN Thrown ELSE Returned(u32(bytes, 1), 4)

\* serialization.cpp:329-337 and rpc_core.cpp:181-188
reader_read_int32(bytes) ==
    IF read_int32_throws(bytes) THEN Thrown ELSE Returned(read_int32(bytes), 4)

\* serialization.cpp:298-302: sizeof(bool) bytes, one byte
write_bool(value) == IF value THEN <<1>> ELSE <<0>>

\* serialization.cpp:379-387
read_bool(bytes) ==
    IF Len(bytes) < 1 THEN Thrown ELSE Returned(bytes[1] # 0, 1)

\* rpc_core.cpp:140-142
rpc_core_write_bool(value) == write_int32(IF value THEN 1 ELSE 0)

\* rpc_core.cpp:226-228
rpc_core_read_bool(bytes) ==
    IF Len(bytes) < 4 THEN Thrown ELSE Returned(read_int32(bytes) # 0, 4)

\* serialization.cpp:389-397: no length is special.  A negative length
\* passes the bounds test, which is made in size_t, and the string is then
\* built from a range that ends before it starts: undefined behaviour,
\* which either throws std::length_error or returns an empty string after
\* moving the position back (ub says which)
read_string(bytes, ub) ==
    IF Len(bytes) < 4 THEN Thrown
    ELSE LET length == read_int32(bytes)
         IN IF length < 0
            THEN IF ub = "throws" THEN Thrown ELSE Returned(<<>>, 4 + length)
            ELSE IF 4 + length > Len(bytes) THEN Thrown
            ELSE Returned(SubSeq(bytes, 5, 4 + length), 4 + length)

\* rpc_core.cpp:144-151: the empty string is written as length -1
rpc_core_write_string(value) ==
    IF value = <<>> THEN write_int32(-1)
    ELSE write_int32(Len(value)) \o value

\* rpc_core.cpp:230-244
rpc_core_read_string(bytes) ==
    IF Len(bytes) < 4 THEN Thrown
    ELSE LET length == read_int32(bytes)
         IN IF length = -1 \/ length = 0 THEN Returned(<<>>, 4)
            ELSE IF length < 0 \/ 4 + length > Len(bytes) THEN Thrown
            ELSE Returned(SubSeq(bytes, 5, 4 + length), 4 + length)

\* serialization.cpp:311-316 and rpc_core.cpp:153-156
write_bytes(bytes) == write_int32(Len(bytes)) \o bytes

\* serialization.cpp:399-407 and rpc_core.cpp:246-254, for the lengths
\* write_bytes produces
read_bytes(bytes) ==
    IF Len(bytes) < 4 THEN Thrown
    ELSE LET length == read_int32(bytes)
         IN IF length < 0 \/ 4 + length > Len(bytes) THEN Thrown
            ELSE Returned(SubSeq(bytes, 5, 4 + length), 4 + length)

\* the values written and read back, by type
CodecTypes == {"int32", "int64", "uint32", "bool", "string", "bytes"}

CodecValues(type) ==
    CASE type = "int32" -> {-2147483647 - 1, -1, 0, 1, 258, 2147483647}
      [] type = "int64" -> {-2147483647 - 1, -1, 0, 1, 2147483647}
      [] type = "uint32" -> {0, 1, 65536, 2147483647}
      [] type = "bool" -> BOOLEAN
      [] type = "string" -> SeqsUpTo({97, 0}, MaxStr)
      [] type = "bytes" -> SeqsUpTo({0, 255}, MaxStr)

\* StreamWriter::write_<type> of the runtime linked
Write(rt, type, value) ==
    CASE type = "int32" -> write_int32(value)
      [] type = "int64" -> write_int64(value)
      [] type = "uint32" -> write_uint32(value)
      [] type = "bool" -> IF rt = "rpc_core.cpp" THEN rpc_core_write_bool(value)
                          ELSE write_bool(value)
      [] type = "string" -> IF rt = "rpc_core.cpp"
                            THEN rpc_core_write_string(value)
                            ELSE write_string(value)
      [] type = "bytes" -> write_bytes(value)

\* StreamReader::read_<type> of the runtime linked
Read(rt, type, bytes, ub) ==
    CASE type = "int32" -> reader_read_int32(bytes)
      [] type = "int64" -> read_int64(bytes)
      [] type = "uint32" -> read_uint32(bytes)
      [] type = "bool" -> IF rt = "rpc_core.cpp" THEN rpc_core_read_bool(bytes)
                          ELSE read_bool(bytes)
      [] type = "string" -> IF rt = "rpc_core.cpp"
                            THEN rpc_core_read_string(bytes)
                            ELSE read_string(bytes, ub)
      [] type = "bytes" -> read_bytes(bytes)

\* test_main.cpp:26-53: write a value, read it back from the bytes written
codec_round_trip(rt, type, value, ub) ==
    /\ coded' = [op |-> "round_trip", rt |-> rt, type |-> type,
                 value |-> value, bytes |-> Write(rt, type, value),
                 back |-> Read(rt, type, Write(rt, type, value), ub)]
    /\ UNCHANGED framed
    /\ UNCHANGED outsideCodec

\* a string written by a peer as the bare length -1 or 0 is read
codec_read_string(rt, length, ub) ==
    /\ coded' = [op |-> "read_string", rt |-> rt, type |-> "string",
                 value |-> <<>>, bytes |-> write_int32(length),
                 back |-> Read(rt, "string", write_int32(length), ub)]
    /\ UNCHANGED framed
    /\ UNCHANGED outsideCodec

(***************************************************************************)
(* write_object and read_object                                            *)
(***************************************************************************)
\* an int32 object, or no object (a null pointer)
Absent == [type |-> "null", v |-> 0]

Objects == {[type |-> "int32", v |-> 5], [type |-> "int32", v |-> -1], Absent}

\* a hash code no handler has
UnknownHashCode == 999

\* the outcome of a read_object: a value, nothing, or an error
ObjectRead(object, error, consumed) ==
    [object |-> object, error |-> error, consumed |-> consumed]

\* serialization.cpp:318-320 with serialize_impl (46-52): the handler
\* writes the object; a null object is dereferenced by the handler
serialization_write_object(obj) ==
    IF obj = Absent THEN [crash |-> TRUE, bytes |-> <<>>]
    ELSE [crash |-> FALSE, bytes |-> write_object(obj.v)]

\* serialization.cpp:409-412: returns nullptr and reads nothing
read_object(bytes) == ObjectRead(Absent, "none", 0)

\* rpc_core.cpp:158-172
rpc_core_write_object(obj) ==
    IF obj = Absent \/ ~get_handler(obj.type)
    THEN [crash |-> FALSE, bytes |-> write_int32(-1)]
    ELSE [crash |-> FALSE,
          bytes |-> write_int32(Int32HashCode) \o write_int32(obj.v)]

\* rpc_core.cpp:43-46 as read_object calls it (263): the hash code read
\* from the wire is looked up in handlers_, whose keys are
\* typeid(T).hash_code() values and not handler hash codes
get_handler_of_wire_hash(hash_code) == FALSE

\* rpc_core.cpp:256-269
rpc_core_read_object(bytes) ==
    IF read_int32_throws(bytes) THEN ObjectRead(Absent, "end of stream", 0)
    ELSE IF read_int32(bytes) = -1 THEN ObjectRead(Absent, "none", 4)
    ELSE IF get_handler_of_wire_hash(read_int32(bytes))
    THEN ObjectRead([type |-> "int32", v |-> s32(bytes, 5)], "none", 8)
    ELSE ObjectRead(Absent, "none", 4)

WriteObject(rt, obj) ==
    IF rt = "rpc_core.cpp" THEN rpc_core_write_object(obj)
    ELSE serialization_write_object(obj)

ReadObject(rt, bytes) ==
    IF rt = "rpc_core.cpp" THEN rpc_core_read_object(bytes)
    ELSE read_object(bytes)

\* Tests/CppClient/main.cpp:44-52: an object is written and read back
object_round_trip(rt, obj) ==
    /\ coded' = [op |-> "object", rt |-> rt, type |-> obj.type,
                 value |-> obj, bytes |-> WriteObject(rt, obj).bytes,
                 crash |-> WriteObject(rt, obj).crash,
                 back |-> ReadObject(rt, WriteObject(rt, obj).bytes)]
    /\ UNCHANGED framed
    /\ UNCHANGED outsideCodec

\* an object with a hash code no handler has arrives and is read
object_read_unknown(rt) ==
    /\ coded' = [op |-> "unknown", rt |-> rt, type |-> "none",
                 value |-> Absent,
                 bytes |-> write_int32(UnknownHashCode) \o write_int32(5),
                 crash |-> FALSE,
                 back |-> ReadObject(rt, write_int32(UnknownHashCode)
                                             \o write_int32(5))]
    /\ UNCHANGED framed
    /\ UNCHANGED outsideCodec

\* nothing framed, nothing written
InitCodec ==
    /\ framed = [n |-> 0]
    /\ coded = [op |-> "none"]

NextCodec ==
    \/ \E method \in FramedNames, body \in FramedBodies, legacy \in BOOLEAN :
          frame_and_parse(method, body, legacy)
    \/ \E rt \in Runtimes, type \in CodecTypes, ub \in {"throws", "empty"} :
          \E value \in CodecValues(type) : codec_round_trip(rt, type, value, ub)
    \/ \E rt \in Runtimes, length \in {-1, 0}, ub \in {"throws", "empty"} :
          codec_read_string(rt, length, ub)
    \/ \E rt \in Runtimes, obj \in Objects : object_round_trip(rt, obj)
    \/ \E rt \in Runtimes : object_read_unknown(rt)


(***************************************************************************)
(* BufferSerializer: the singleton and its two handler maps                *)
(* (serialization.cpp and rpc_core.cpp both define the class's members).   *)
(***************************************************************************)
\* the absent handler: what the lookups return as nullptr
nullptr == [class |-> "nullptr", hash_code |-> 0]

\* the built-in handlers of serialization.h: native type, class, hash_code()
BuiltIns ==
    { [type |-> "int32_t",              class |-> "Int32Handler",    hash_code |-> Int32HashCode],
      [type |-> "int64_t",              class |-> "Int64Handler",    hash_code |-> 102],
      [type |-> "float",                class |-> "FloatHandler",    hash_code |-> 103],
      [type |-> "double",               class |-> "DoubleHandler",   hash_code |-> 104],
      [type |-> "bool",                 class |-> "BoolHandler",     hash_code |-> 105],
      [type |-> "std::string",          class |-> "StringHandler",   hash_code |-> 106],
      [type |-> "std::vector<uint8_t>", class |-> "BytesHandler",    hash_code |-> 107],
      [type |-> "time_point",           class |-> "DateTimeHandler", hash_code |-> 201],
      [type |-> "Vector3",              class |-> "Vector3Handler",  hash_code |-> 202] }

HandlerOf(b) == [class |-> b.class, hash_code |-> b.hash_code]

\* a generated struct's handler: hash_code() is the typeid hash cut to int,
\* so it is whatever the implementation's hash gives
StructHashCodes == {Int32HashCode, 301}

StructTypeHandler(hc) == [class |-> "StructTypeHandler<Player>", hash_code |-> hc]

RegTypes == {b.type : b \in BuiltIns} \cup {"Player"}

RegHashCodes == {b.hash_code : b \in BuiltIns} \cup StructHashCodes

\* register_handler<T>(handler) calls an application makes
Registrations ==
    {[type |-> "Player", handler |-> StructTypeHandler(hc)] : hc \in StructHashCodes}
      \cup {[type |-> "int32_t", handler |-> StructTypeHandler(301)]}

\* register_handler_impl: both maps are assigned, whatever they held
register_handler_impl(byType, byHash, owner, type, handler) ==
    [byType |-> [byType EXCEPT ![type] = handler],
     byHash |-> [byHash EXCEPT ![handler.hash_code] = handler],
     owner |-> [owner EXCEPT ![handler.hash_code] = type]]

\* the built-ins init_handlers registers, per definition of the class
InitHandlersOf(rt) ==
    IF rt = "serialization.cpp" THEN BuiltIns
    ELSE {b \in BuiltIns : b.hash_code < 200}

RECURSIVE RegisterAll(_, _)
RegisterAll(maps, set) ==
    IF set = {} THEN maps
    ELSE LET b == CHOOSE x \in set : TRUE
         IN RegisterAll(register_handler_impl(maps.byType, maps.byHash,
                                              maps.owner, b.type, HandlerOf(b)),
                        set \ {b})

RegMaps == [byType |-> handlers_by_type_, byHash |-> handlers_by_hash_code_,
            owner |-> hash_owner]

\* get_handler(type_hash) and get_handler_by_hash_code(hash_code)
registry_get_handler(type) == handlers_by_type_[type]

get_handler_by_hash_code(hash_code) == handlers_by_hash_code_[hash_code]

\* instance(): serialization.cpp constructs the static object and returns
\* it; rpc_core.cpp tests its static flag, unguarded, and runs
\* init_handlers when the flag is still false
instance_call(t) ==
    /\ inst[t] = "out"
    /\ \E rt \in (IF linked = "none" THEN Runtimes ELSE {linked}) :
          /\ linked' = rt
          /\ inst' = [inst EXCEPT ![t] =
                        IF rt = "serialization.cpp" THEN "in"
                        ELSE IF initialized THEN "in" ELSE "init"]
    /\ UNCHANGED <<initialized, handlers_by_type_, handlers_by_hash_code_,
                   raced, inits, hash_owner>>
    /\ UNCHANGED outsideReg

\* rpc_core.cpp init_handlers starts to insert into the maps (no lock)
init_handlers_begin(t) ==
    /\ inst[t] = "init"
    /\ inst' = [inst EXCEPT ![t] = "registering"]
    /\ raced' = (raced \/ \E u \in Threads : u # t /\ inst[u] = "registering")
    /\ inits' = inits + 1
    /\ UNCHANGED <<linked, initialized, handlers_by_type_,
                   handlers_by_hash_code_, hash_owner>>
    /\ UNCHANGED outsideReg

\* ... and has inserted its handlers; insertions that ran into another
\* thread's are a data race, after which any of them may be missing
init_handlers_end(t) ==
    /\ inst[t] = "registering"
    /\ inst' = [inst EXCEPT ![t] = "store"]
    /\ \E kept \in (IF raced THEN SUBSET InitHandlersOf(linked)
                             ELSE {InitHandlersOf(linked)}) :
          LET maps == RegisterAll(RegMaps, kept)
          IN /\ handlers_by_type_' = maps.byType
             /\ handlers_by_hash_code_' = maps.byHash
             /\ hash_owner' = maps.owner
    /\ UNCHANGED <<linked, initialized, raced, inits>>
    /\ UNCHANGED outsideReg

\* initialized = true; return instance
instance_return(t) ==
    /\ inst[t] = "store"
    /\ initialized' = TRUE
    /\ inst' = [inst EXCEPT ![t] = "in"]
    /\ UNCHANGED <<linked, handlers_by_type_, handlers_by_hash_code_, raced,
                   inits, hash_owner>>
    /\ UNCHANGED outsideReg

\* BufferSerializer::instance().register_handler<T>(handler)
register_handler(t, type, handler) ==
    /\ inst[t] = "in"
    /\ LET maps == register_handler_impl(handlers_by_type_,
                       handlers_by_hash_code_, hash_owner, type, handler)
       IN /\ handlers_by_type_' = maps.byType
          /\ handlers_by_hash_code_' = maps.byHash
          /\ hash_owner' = maps.owner
    /\ raced' = (raced \/ (linked = "rpc_core.cpp"
                            /\ \E u \in Threads : inst[u] = "registering"))
    /\ UNCHANGED <<linked, inst, initialized, inits>>
    /\ UNCHANGED outsideReg

\* no thread has touched the singleton; its maps are empty
InitReg ==
    /\ linked = "none"
    /\ inst = [t \in Threads |-> "out"]
    /\ initialized = FALSE
    /\ handlers_by_type_ = [type \in RegTypes |-> nullptr]
    /\ handlers_by_hash_code_ = [hc \in RegHashCodes |-> nullptr]
    /\ raced = FALSE
    /\ inits = 0
    /\ hash_owner = [hc \in RegHashCodes |-> "none"]

NextReg ==
    \/ \E t \in Threads : instance_call(t)
    \/ \E t \in Threads : init_handlers_begin(t)
    \/ \E t \in Threads : init_handlers_end(t)
    \/ \E t \in Threads : instance_return(t)
    \/ \E t \in Threads, r \in Registrations :
          register_handler(t, r.type, r.handler)


(***************************************************************************)
(* BitMask (serialization.cpp 414-464, rpc_core.cpp 62-110).  A word is    *)
(* kept as the four bytes it occupies, least significant first.            *)
(***************************************************************************)
WordBits == 32

ZeroWord == <<0, 0, 0, 0>>

\* the indices the application sets, and those it asks for
MaskIndices == {1, 3, WordBits - 1, WordBits, WordBits * MaxWords - 1}

AskedIndices == 0..(WordBits * (MaxWords + 1) - 1)

\* int mask_index = index / 32; int bit_index = index % 32;
mask_index(index) == index \div WordBits

bit_index(index) == index % WordBits

\* (word & (1 << k)) != 0
Bit(word, k) == (word[(k \div 8) + 1] \div (2 ^ (k % 8))) % 2 = 1

\* word |= (1 << k)
OrBit(word, k) ==
    IF Bit(word, k) THEN word
    ELSE [word EXCEPT ![(k \div 8) + 1] = @ + 2 ^ (k % 8)]

\* word &= ~(1 << k)
AndNotBit(word, k) ==
    IF Bit(word, k) THEN [word EXCEPT ![(k \div 8) + 1] = @ - 2 ^ (k % 8)]
    ELSE word

\* a fresh vector in place of the grown one
resize_clears(masks, n) == [i \in 1..n |-> ZeroWord]

\* masks_.resize(n, 0): the words it had stay, new words are zero
resize(masks, n) ==
    [i \in 1..n |-> IF i <= Len(masks) THEN masks[i] ELSE ZeroWord]

set_bit(masks, index, value) ==
    LET grown == IF mask_index(index) >= Len(masks)
                 THEN resize(masks, mask_index(index) + 1)
                 ELSE masks
    IN [grown EXCEPT ![mask_index(index) + 1] =
           IF value THEN OrBit(@, bit_index(index))
           ELSE AndNotBit(@, bit_index(index))]

get_bit(masks, index) ==
    IF mask_index(index) >= Len(masks) THEN FALSE
    ELSE Bit(masks[mask_index(index) + 1], bit_index(index))

RECURSIVE WordsOut(_)
WordsOut(masks) ==
    IF masks = <<>> THEN <<>> ELSE Head(masks) \o WordsOut(Tail(masks))

\* write_int32(masks_.size()), then write_uint32 of every word
BitMask_write(masks) == write_int32(Len(masks)) \o WordsOut(masks)

\* size = read_int32(); masks_.resize(size); masks_[i] = read_uint32()
BitMask_read(bytes) ==
    [i \in 1..read_int32(bytes) |-> SubSeq(bytes, 4 * i + 1, 4 * i + 4)]

\* BitMask() and BitMask(size): serialization.cpp makes no word, or the
\* words that hold size bits; rpc_core.cpp makes one word, or size words
BitMask_default(rt) ==
    IF rt = "serialization.cpp" THEN <<>> ELSE <<ZeroWord>>

BitMask_sized(rt, size) ==
    IF rt = "serialization.cpp"
    THEN [i \in 1..((size + WordBits - 1) \div WordBits) |-> ZeroWord]
    ELSE [i \in 1..size |-> ZeroWord]

\* the sizes the application constructs a mask with
MaskSizes == {0, 1, MaxWords, WordBits + 1}

NewMasks ==
    {BitMask_default(rt) : rt \in Runtimes}
      \cup {BitMask_sized("serialization.cpp", size) : size \in MaskSizes}
      \cup {BitMask_sized("rpc_core.cpp", size) : size \in MaskSizes \cap 0..MaxWords}

\* mask = BitMask() or BitMask(size)
mask_construct(fresh) ==
    /\ masks_' = fresh
    /\ last_set' = [i \in MaskIndices |-> FALSE]
    /\ UNCHANGED wire
    /\ UNCHANGED outsideMask

mask_set_bit(index, value) ==
    /\ masks_' = set_bit(masks_, index, value)
    /\ last_set' = [last_set EXCEPT ![index] = value]
    /\ UNCHANGED wire
    /\ UNCHANGED outsideMask

mask_clear ==
    /\ masks_' = [i \in 1..Len(masks_) |-> ZeroWord]
    /\ last_set' = [i \in MaskIndices |-> FALSE]
    /\ UNCHANGED wire
    /\ UNCHANGED outsideMask

\* mask.write(writer); other.read(StreamReader(writer.to_array()))
mask_write_read ==
    /\ wire' = [n |-> 1, from |-> masks_, bytes |-> BitMask_write(masks_),
                back |-> BitMask_read(BitMask_write(masks_))]
    /\ UNCHANGED <<masks_, last_set>>
    /\ UNCHANGED outsideMask

\* BitMask mask; of serialization.cpp
InitMask ==
    /\ masks_ = <<>>
    /\ last_set = [i \in MaskIndices |-> FALSE]
    /\ wire = [n |-> 0]

NextMask ==
    \/ \E fresh \in NewMasks : mask_construct(fresh)
    \/ \E index \in MaskIndices, value \in BOOLEAN : mask_set_bit(index, value)
    \/ mask_clear
    \/ mask_write_read


(***************************************************************************)
(* Shutdown: disconnect, stop and close of the objects that own a socket,  *)
(* threads or a mapping.  "fd" is the state of the descriptor at the OS.   *)
(***************************************************************************)
ShutObjects == {"TcpRpcClient", "TcpRpcClientAsync", "TcpRpcServer",
                "SharedMemoryManager", "RingBuffer",
                "TcpStreamResponseReader", "TcpStreamResponseWriter"}

\* closesocket / CloseHandle / munmap on a descriptor
os_close(fd) == IF fd = "open" THEN "closed" ELSE "closed twice"

NewClient == [connected_ |-> FALSE, socket_ |-> FALSE, fd |-> "none"]

\* connect(): the socket is created and connected, connected_ = true
client_connect(c) == [connected_ |-> TRUE, socket_ |-> TRUE, fd |-> "open"]

\* disconnect(): if (connected_ && socket_) { closesocket; socket_ =
\* nullptr; connected_ = false; }
client_disconnect(c) ==
    IF c.connected_ /\ c.socket_
    THEN [connected_ |-> FALSE, socket_ |-> FALSE, fd |-> os_close(c.fd)]
    ELSE c

NewServer == [is_running_ |-> FALSE, server_socket_ |-> FALSE, fd |-> "none",
              accept_thread_ |-> "none", client_threads_ |-> 0]

\* start_async(): listen, is_running_ = true, start the accept thread
server_start(s) ==
    IF s.is_running_ THEN s
    ELSE [s EXCEPT !.is_running_ = TRUE, !.server_socket_ = TRUE,
                   !.fd = "open", !.accept_thread_ = "running"]

\* stop()
server_stop(s) ==
    IF ~s.is_running_ THEN s
    ELSE [is_running_ |-> FALSE,
          server_socket_ |-> FALSE,
          fd |-> IF s.server_socket_ THEN os_close(s.fd) ELSE s.fd,
          accept_thread_ |-> IF s.accept_thread_ = "running" THEN "joined"
                             ELSE s.accept_thread_,
          client_threads_ |-> 0]

NewRing == [data_ready_event_ |-> FALSE, space_available_event_ |-> FALSE,
            mapped_memory_ |-> FALSE, header_ |-> FALSE, buffer_ |-> FALSE,
            initialized_ |-> FALSE, fd |-> "none"]

\* create() that succeeds
ring_create(r) ==
    [data_ready_event_ |-> TRUE, space_available_event_ |-> TRUE,
     mapped_memory_ |-> TRUE, header_ |-> TRUE, buffer_ |-> TRUE,
     initialized_ |-> TRUE, fd |-> "open"]

\* RingBuffer::close()
ring_close(r) ==
    [data_ready_event_ |-> FALSE, space_available_event_ |-> FALSE,
     mapped_memory_ |-> FALSE, header_ |-> FALSE, buffer_ |-> FALSE,
     initialized_ |-> FALSE,
     fd |-> IF r.mapped_memory_ THEN os_close(r.fd) ELSE r.fd]

NewManager == [running_ |-> FALSE, heartbeat_active_ |-> FALSE,
               ring_buffer_ |-> FALSE, ring |-> NewRing,
               is_producer_ |-> FALSE, is_consumer_ |-> FALSE,
               threads |-> "none"]

\* start_producer() / start_consumer() that succeed
manager_start(g, role) ==
    IF g.running_ THEN g
    ELSE [g EXCEPT !.ring_buffer_ = TRUE, !.ring = ring_create(NewRing),
                   !.running_ = TRUE,
                   !.is_producer_ = (role = "producer"),
                   !.is_consumer_ = (role = "consumer"),
                   !.threads = "running"]

\* SharedMemoryManager::stop()
manager_stop(g) ==
    IF ~g.running_ THEN g
    ELSE [running_ |-> FALSE, heartbeat_active_ |-> FALSE,
          ring_buffer_ |-> FALSE,
          ring |-> IF g.ring_buffer_ THEN ring_close(g.ring) ELSE g.ring,
          is_producer_ |-> FALSE, is_consumer_ |-> FALSE,
          threads |-> IF g.threads = "running" THEN "joined" ELSE g.threads]

NewStreamReader == [stream_ended_ |-> FALSE, connection_closed_ |-> FALSE,
                    has_error_ |-> FALSE]

\* TcpStreamResponseReader::close(): stream_ended_ = true
reader_close(r) == [r EXCEPT !.stream_ended_ = TRUE]

NewStreamWriter == [stream_ended_ |-> FALSE, has_error_ |-> FALSE,
                    connection_valid_ |-> TRUE, sent |-> <<>>]

\* close() sends the end marker whenever the connection is valid
close_sends_always(w) == w.connection_valid_

\* if (connection_valid_ && !stream_ended_)
close_sends(w) == w.connection_valid_ /\ ~w.stream_ended_

\* TcpStreamResponseWriter::close()
writer_close(w) ==
    IF close_sends(w)
    THEN [w EXCEPT !.sent = Append(@, "end"), !.stream_ended_ = TRUE]
    ELSE w

\* TcpStreamResponseWriter::write(): refused after an error, an end or a
\* broken connection; a send that fails is marked as an error
writer_write(w, sends) ==
    IF w.has_error_ \/ ~w.connection_valid_ \/ w.stream_ended_ THEN w
    ELSE IF sends THEN [w EXCEPT !.sent = Append(@, "item")]
    ELSE [w EXCEPT !.has_error_ = TRUE, !.connection_valid_ = FALSE]

Processes == {"client", "server", "shared memory"}

\* a process starts, with its objects constructed
process_start(p) ==
    /\ process = "none"
    /\ process' = p
    /\ UNCHANGED <<tcp_client, tcp_async, tcp_server, shm_manager,
                   ring_object, stream_reader, stream_writer, closes>>
    /\ UNCHANGED outsideLife

Opened(o) == closes' = [closes EXCEPT ![o] = 0]

Shut(o) == closes' = [closes EXCEPT ![o] = @ + 1]

TcpRpcClient_connect ==
    /\ process = "client"
    /\ ~tcp_client.connected_
    /\ tcp_client' = client_connect(tcp_client)
    /\ Opened("TcpRpcClient")
    /\ UNCHANGED <<process, tcp_async, tcp_server, shm_manager, ring_object,
                   stream_reader, stream_writer>>
    /\ UNCHANGED outsideLife

TcpRpcClient_disconnect ==
    /\ process = "client"
    /\ closes["TcpRpcClient"] < MaxCloses
    /\ tcp_client' = client_disconnect(tcp_client)
    /\ Shut("TcpRpcClient")
    /\ UNCHANGED <<process, tcp_async, tcp_server, shm_manager, ring_object,
                   stream_reader, stream_writer>>
    /\ UNCHANGED outsideLife

TcpRpcClientAsync_connect ==
    /\ process = "client"
    /\ ~tcp_async.connected_
    /\ tcp_async' = client_connect(tcp_async)
    /\ Opened("TcpRpcClientAsync")
    /\ UNCHANGED <<process, tcp_client, tcp_server, shm_manager, ring_object,
                   stream_reader, stream_writer>>
    /\ UNCHANGED outsideLife

TcpRpcClientAsync_disconnect ==
    /\ process = "client"
    /\ closes["TcpRpcClientAsync"] < MaxCloses
    /\ tcp_async' = client_disconnect(tcp_async)
    /\ Shut("TcpRpcClientAsync")
    /\ UNCHANGED <<process, tcp_client, tcp_server, shm_manager, ring_object,
                   stream_reader, stream_writer>>
    /\ UNCHANGED outsideLife

TcpRpcServer_start ==
    /\ process = "server"
    /\ ~tcp_server.is_running_
    /\ tcp_server' = server_start(tcp_server)
    /\ Opened("TcpRpcServer")
    /\ UNCHANGED <<process, tcp_client, tcp_async, shm_manager, ring_object,
                   stream_reader, stream_writer>>
    /\ UNCHANGED outsideLife

\* accept_connections: a connection is accepted and given a thread
TcpRpcServer_accept ==
    /\ process = "server"
    /\ tcp_server.is_running_
    /\ tcp_server.client_threads_ = 0
    /\ tcp_server' = [tcp_server EXCEPT !.client_threads_ = 1]
    /\ UNCHANGED <<process, tcp_client, tcp_async, shm_manager, ring_object,
                   stream_reader, stream_writer, closes>>
    /\ UNCHANGED outsideLife

TcpRpcServer_stop ==
    /\ process = "server"
    /\ closes["TcpRpcServer"] < MaxCloses
    /\ tcp_server' = server_stop(tcp_server)
    /\ Shut("TcpRpcServer")
    /\ UNCHANGED <<process, tcp_client, tcp_async, shm_manager, ring_object,
                   stream_reader, stream_writer>>
    /\ UNCHANGED outsideLife

SharedMemoryManager_start(role) ==
    /\ process = "shared memory"
    /\ ~shm_manager.running_
    /\ shm_manager' = manager_start(shm_manager, role)
    /\ Opened("SharedMemoryManager")
    /\ UNCHANGED <<process, tcp_client, tcp_async, tcp_server, ring_object,
                   stream_reader, stream_writer>>
    /\ UNCHANGED outsideLife

SharedMemoryManager_stop ==
    /\ process = "shared memory"
    /\ closes["SharedMemoryManager"] < MaxCloses
    /\ shm_manager' = manager_stop(shm_manager)
    /\ Shut("SharedMemoryManager")
    /\ UNCHANGED <<process, tcp_client, tcp_async, tcp_server, ring_object,
                   stream_reader, stream_writer>>
    /\ UNCHANGED outsideLife

RingBuffer_create ==
    /\ process = "shared memory"
    /\ ~ring_object.initialized_
    /\ ring_object' = ring_create(ring_object)
    /\ Opened("RingBuffer")
    /\ UNCHANGED <<process, tcp_client, tcp_async, tcp_server, shm_manager,
                   stream_reader, stream_writer>>
    /\ UNCHANGED outsideLife

RingBuffer_close ==
    /\ process = "shared memory"
    /\ closes["RingBuffer"] < MaxCloses
    /\ ring_object' = ring_close(ring_object)
    /\ Shut("RingBuffer")
    /\ UNCHANGED <<process, tcp_client, tcp_async, tcp_server, shm_manager,
                   stream_reader, stream_writer>>
    /\ UNCHANGED outsideLife

\* read_next() meets the end marker, a closed connection or an error
TcpStreamResponseReader_read(outcome) ==
    /\ process = "client"
    /\ stream_reader = NewStreamReader
    /\ stream_reader' = [stream_reader EXCEPT ![outcome] = TRUE]
    /\ UNCHANGED <<process, tcp_client, tcp_async, tcp_server, shm_manager,
                   ring_object, stream_writer, closes>>
    /\ UNCHANGED outsideLife

TcpStreamResponseReader_close ==
    /\ process = "client"
    /\ closes["TcpStreamResponseReader"] < MaxCloses
    /\ stream_reader' = reader_close(stream_reader)
    /\ Shut("TcpStreamResponseReader")
    /\ UNCHANGED <<process, tcp_client, tcp_async, tcp_server, shm_manager,
                   ring_object, stream_writer>>
    /\ UNCHANGED outsideLife

TcpStreamResponseWriter_write(sends) ==
    /\ process = "server"
    /\ Len(stream_writer.sent) < MaxFrames
    /\ stream_writer' = writer_write(stream_writer, sends)
    /\ UNCHANGED <<process, tcp_client, tcp_async, tcp_server, shm_manager,
                   ring_object, stream_reader, closes>>
    /\ UNCHANGED outsideLife

TcpStreamResponseWriter_close ==
    /\ process = "server"
    /\ closes["TcpStreamResponseWriter"] < MaxCloses
    /\ stream_writer' = writer_close(stream_writer)
    /\ Shut("TcpStreamResponseWriter")
    /\ UNCHANGED <<process, tcp_client, tcp_async, tcp_server, shm_manager,
                   ring_object, stream_reader>>
    /\ UNCHANGED outsideLife

\* every object as its constructor leaves it
InitLife ==
    /\ tcp_client = NewClient
    /\ tcp_async = NewClient
    /\ tcp_server = NewServer
    /\ shm_manager = NewManager
    /\ ring_object = NewRing
    /\ stream_reader = NewStreamReader
    /\ stream_writer = NewStreamWriter
    /\ closes = [o \in ShutObjects |-> 0]
    /\ process = "none"

NextLife ==
    \/ \E p \in Processes : process_start(p)
    \/ TcpRpcClient_connect
    \/ TcpRpcClient_disconnect
    \/ TcpRpcClientAsync_connect
    \/ TcpRpcClientAsync_disconnect
    \/ TcpRpcServer_start
    \/ TcpRpcServer_accept
    \/ TcpRpcServer_stop
    \/ \E role \in {"producer", "consumer"} : SharedMemoryManager_start(role)
    \/ SharedMemoryManager_stop
    \/ RingBuffer_create
    \/ RingBuffer_close
    \/ \E outcome \in {"stream_ended_", "connection_closed_", "has_error_"} :
          TcpStreamResponseReader_read(outcome)
    \/ TcpStreamResponseReader_close
    \/ \E sends \in BOOLEAN : TcpStreamResponseWriter_write(sends)
    \/ TcpStreamResponseWriter_close


(***************************************************************************)
(* TcpRpcClient::call and TcpRpcClientAsync::make_rpc_call on a connection *)
(* whose receives can fail (client.cpp 97-141, 272-316).                   *)
(***************************************************************************)
ClientClasses == {"TcpRpcClient", "TcpRpcClientAsync"}

\* what recv does during one call: both receives succeed, the length
\* arrives short or not at all, or the data stops before response_length
WireOutcomes == {"ok", "short length", "no length", "no data"}

WireErrors == {"Failed to receive response length",
               "Failed to receive response data"}

NotConnected == "Not connected to server"

\* the call as a function of the client and of what its receives do:
\* the exception thrown ("none": the response is returned), whether the
\* request was sent, and the client's fields afterwards
rpc_call(c, recvs) ==
    IF ~c.connected_ \/ ~c.socket_
    THEN [thrown |-> NotConnected, sent |-> FALSE,
          connected_ |-> c.connected_, socket_ |-> c.socket_]
    ELSE [thrown |-> CASE recvs \in {"short length", "no length"} ->
                            "Failed to receive response length"
                       [] recvs = "no data" -> "Failed to receive response data"
                       [] OTHER -> "none",
          sent |-> TRUE,
          connected_ |-> c.connected_, socket_ |-> c.socket_]

conn_connect(cls) ==
    /\ ~clients[cls].connected_
    /\ clients' = [clients EXCEPT ![cls] =
                     [connected_ |-> TRUE, socket_ |-> TRUE, requests |-> 0,
                      thrown |-> "none", sent |-> FALSE, calls |-> 0]]
    /\ UNCHANGED outsideConn

conn_disconnect(cls) ==
    /\ clients[cls].connected_ /\ clients[cls].socket_
    /\ clients' = [clients EXCEPT ![cls].connected_ = FALSE,
                                  ![cls].socket_ = FALSE]
    /\ UNCHANGED outsideConn

conn_call(cls, recvs) ==
    /\ clients[cls].calls < MaxCalls
    /\ LET r == rpc_call(clients[cls], recvs)
       IN clients' = [clients EXCEPT ![cls] =
                        [connected_ |-> r.connected_, socket_ |-> r.socket_,
                         requests |-> @.requests + (IF r.sent THEN 1 ELSE 0),
                         thrown |-> r.thrown, sent |-> r.sent,
                         calls |-> @.calls + 1]]
    /\ UNCHANGED outsideConn

\* both clients constructed, not connected
InitConn ==
    clients = [cls \in ClientClasses |->
                 [connected_ |-> FALSE, socket_ |-> FALSE, requests |-> 0,
                  thrown |-> "none", sent |-> FALSE, calls |-> 0]]

NextConn ==
    \/ \E cls \in ClientClasses : conn_connect(cls)
    \/ \E cls \in ClientClasses : conn_disconnect(cls)
    \/ \E cls \in ClientClasses, recvs \in WireOutcomes : conn_call(cls, recvs)


(***************************************************************************)
(* TcpStreamResponseReader and TcpStreamResponseWriter with their error    *)
(* state (client.cpp 334-458, 470-562).  "touched" counts recv and send    *)
(* calls on the socket.                                                    *)
(***************************************************************************)
\* what the socket does to a read_next(): a data frame, the end marker, or
\* one of the failures read_next_frame tells apart
RecvOutcomes == {"frame", "end marker", "closed at length", "short length",
                 "oversize", "closed in data"}

\* what happens to a write(): sent, or one of the failures it tells apart
SendOutcomes == {"sent", "no handler", "oversize", "length not sent",
                 "data not sent"}

\* the reader never refuses because of a recorded error
latched_never(x) == FALSE

\* if (has_error_) at the head of read_next() and of write()
latched(x) == x.has_error_

\* TcpStreamResponseReader::mark_error
reader_mark_error(r, error) ==
    [r EXCEPT !.has_error_ = TRUE, !.error_message_ = error,
              !.stream_ended_ = TRUE]

\* read_next_frame: the reader after it, and whether it returned true
read_next_frame(r, outcome) ==
    CASE outcome = "closed at length" ->
           [ok |-> FALSE, touched |-> 1,
            r |-> reader_mark_error([r EXCEPT !.connection_closed_ = TRUE],
                     "Connection closed while reading frame length")]
      [] outcome = "short length" ->
           [ok |-> FALSE, touched |-> 1,
            r |-> reader_mark_error(r, "Incomplete frame length received")]
      [] outcome = "oversize" ->
           [ok |-> FALSE, touched |-> 1,
            r |-> reader_mark_error(r, "Frame size exceeds maximum limit")]
      [] outcome = "closed in data" ->
           [ok |-> FALSE, touched |-> 2,
            r |-> reader_mark_error([r EXCEPT !.connection_closed_ = TRUE],
                     "Connection closed while reading frame data")]
      [] outcome = "end marker" -> [ok |-> TRUE, touched |-> 1, r |-> r]
      [] OTHER -> [ok |-> TRUE, touched |-> 2, r |-> r]

\* TcpStreamResponseReader::read_next
reader_next(r, outcome) ==
    IF latched(r) THEN [r EXCEPT !.result = "throws"]
    ELSE IF r.stream_ended_ THEN [r EXCEPT !.result = "empty"]
    ELSE IF r.connection_closed_ THEN [r EXCEPT !.result = "throws"]
    ELSE LET f == read_next_frame(r, outcome)
             after == [f.r EXCEPT !.touched = @ + f.touched]
         IN IF ~f.ok THEN [after EXCEPT !.result = "throws"]
            ELSE IF outcome = "end marker"
            THEN [after EXCEPT !.stream_ended_ = TRUE, !.result = "empty"]
            ELSE [after EXCEPT !.result = "frame"]

\* TcpStreamResponseReader::has_more
reader_has_more(r) ==
    ~r.stream_ended_ /\ ~r.connection_closed_ /\ ~r.has_error_

\* TcpStreamResponseWriter::mark_error
writer_mark_error(w, error) ==
    [w EXCEPT !.has_error_ = TRUE, !.error_message_ = error,
              !.connection_valid_ = FALSE]

\* TcpStreamResponseWriter::write with write_frame
writer_put(w, outcome) ==
    IF latched(w) \/ ~w.connection_valid_ \/ w.stream_ended_
    THEN [w EXCEPT !.result = "false"]
    ELSE CASE outcome = "no handler" ->
                [writer_mark_error(w,
                    "No type handler found for response type hash_code")
                   EXCEPT !.result = "false"]
           [] outcome = "oversize" ->
                [writer_mark_error(w, "Frame size exceeds maximum limit")
                   EXCEPT !.result = "false"]
           [] outcome = "length not sent" ->
                [writer_mark_error(w,
                    "Failed to send frame length: connection may be broken")
                   EXCEPT !.result = "false", !.touched = @ + 1]
           [] outcome = "data not sent" ->
                [writer_mark_error(w,
                    "Failed to send frame data: connection may be broken")
                   EXCEPT !.result = "false", !.touched = @ + 2]
           [] OTHER -> [w EXCEPT !.result = "true", !.touched = @ + 2]

\* TcpStreamResponseWriter::is_valid
writer_is_valid(w) ==
    w.connection_valid_ /\ ~w.has_error_ /\ ~w.stream_ended_

\* TcpStreamResponseWriter::close, with the send counted
writer_end(w) ==
    IF close_sends(w)
    THEN [w EXCEPT !.stream_ended_ = TRUE, !.touched = @ + 1]
    ELSE w

Called(x, op) == [x EXCEPT !.calls = @ + 1, !.op = op]

latch_read_next(outcome) ==
    /\ rd.calls < MaxCalls
    /\ rd' = reader_next(Called(rd, "read_next"), outcome)
    /\ UNCHANGED wr
    /\ UNCHANGED outsideLatch

latch_reader_close ==
    /\ rd.calls < MaxCalls
    /\ rd' = [Called(rd, "close") EXCEPT !.stream_ended_ = TRUE,
                                        !.result = "void"]
    /\ UNCHANGED wr
    /\ UNCHANGED outsideLatch

latch_write(outcome) ==
    /\ wr.calls < MaxCalls
    /\ wr' = writer_put(Called(wr, "write"), outcome)
    /\ UNCHANGED rd
    /\ UNCHANGED outsideLatch

latch_writer_close ==
    /\ wr.calls < MaxCalls
    /\ wr' = [writer_end(Called(wr, "close")) EXCEPT !.result = "void"]
    /\ UNCHANGED rd
    /\ UNCHANGED outsideLatch

\* a reader and a writer as constructed
InitLatch ==
    /\ rd = [stream_ended_ |-> FALSE, has_error_ |-> FALSE,
             connection_closed_ |-> FALSE, error_message_ |-> "",
             touched |-> 0, calls |-> 0, op |-> "none", result |-> "none"]
    /\ wr = [stream_ended_ |-> FALSE, has_error_ |-> FALSE,
             connection_valid_ |-> TRUE, error_message_ |-> "",
             touched |-> 0, calls |-> 0, op |-> "none", result |-> "none"]

NextLatch ==
    \/ \E outcome \in RecvOutcomes : latch_read_next(outcome)
    \/ latch_reader_close
    \/ \E outcome \in SendOutcomes : latch_write(outcome)
    \/ latch_writer_close


(***************************************************************************)
(* handle_client receiving a frame (server.cpp 239-269): the length, then  *)
(* the payload, from a connection that may end at any byte.                *)
(***************************************************************************)
\* frame lengths a client announces
FrameLens == {0, 1, MAX_FRAME_SIZE, MAX_FRAME_SIZE + 1}

\* recv_all_helper(sock, buf, len) with "available" bytes arriving before
\* the connection ends: whether it returned true, and the bytes it read
recv_all_helper(len, available) ==
    IF available >= len THEN [ok |-> TRUE, off |-> len]
    ELSE [ok |-> FALSE, off |-> available]

\* one pass of the worker's loop up to the dispatch: the four bytes of the
\* length, then payload_length bytes
receive_frame(payload_length, length_bytes, payload_bytes) ==
    IF ~recv_all_helper(4, length_bytes).ok
    THEN [does |-> "break", read |-> 0]
    ELSE IF payload_length = 0 THEN [does |-> "continue", read |-> 0]
    ELSE LET p == recv_all_helper(payload_length, payload_bytes)
         IN IF ~p.ok THEN [does |-> "break", read |-> p.off]
            ELSE [does |-> "dispatch", read |-> p.off]

\* the bytes of the payload that arrive: none, all but one, all, or all
\* and the start of the next frame
Arrivals(payload_length) ==
    {n \in {0, payload_length - 1, payload_length, payload_length + 4} : n >= 0}

worker_receive(payload_length, length_bytes, payload_bytes) ==
    /\ rx.worker = "serving"
    /\ Len(rx.log) < MaxCalls
    /\ LET f == receive_frame(payload_length, length_bytes, payload_bytes)
       IN rx' = [worker |-> IF f.does = "break" THEN "closed" ELSE "serving",
                 log |-> Append(rx.log,
                           [frame_len |-> payload_length,
                            complete |-> length_bytes >= 4
                                           /\ payload_bytes >= payload_length,
                            does |-> f.does, read |-> f.read])]
    /\ UNCHANGED outsideFrame

\* a connection was accepted
InitFrame == rx = [worker |-> "serving", log |-> <<>>]

NextFrame ==
    \E payload_length \in FrameLens, length_bytes \in {0, 2, 4} :
       \E payload_bytes \in Arrivals(payload_length) :
          worker_receive(payload_length, length_bytes, payload_bytes)


(***************************************************************************)
(* Dispatch in handle_client (server.cpp 308-375) over a service whose     *)
(* registries may hold the same name.                                      *)
(***************************************************************************)
\* method names registered and called: "E", "A", "S"
DispatchNames == {<<69>>, <<65>>, <<83>>}

RegistryKinds == {"stream", "unary", "async"}

\* the unary registry is asked first
dispatch_unary_first(regs, method) ==
    IF method \in regs["unary"] THEN <<"unary">>
    ELSE IF method \in regs["stream"] THEN <<"stream">>
    ELSE IF method \in regs["async"] THEN <<"async">>
    ELSE <<>>

\* has_stream_method ... continue; has_method ... continue;
\* has_async_method ... continue: the handlers the worker invokes
dispatch(regs, method) ==
    IF method \in regs["stream"] THEN <<"stream">>
    ELSE IF method \in regs["unary"] THEN <<"unary">>
    ELSE IF method \in regs["async"] THEN <<"async">>
    ELSE <<>>

\* register_method / register_async_method / register_stream_method
service_register(kind, name) ==
    /\ name \notin registries[kind]
    /\ registries' = [registries EXCEPT ![kind] = @ \cup {name}]
    /\ UNCHANGED dispatched
    /\ UNCHANGED outsideDispatch

\* a request for a method of the service reaches the worker
service_dispatch(method) ==
    /\ dispatched' = [n |-> 1, method |-> method, at |-> registries,
                      invoked |-> dispatch(registries, method)]
    /\ UNCHANGED registries
    /\ UNCHANGED outsideDispatch

\* a service with nothing registered
InitDispatch ==
    /\ registries = [kind \in RegistryKinds |-> {}]
    /\ dispatched = [n |-> 0]

NextDispatch ==
    \/ \E kind \in RegistryKinds, name \in DispatchNames :
          service_register(kind, name)
    \/ \E method \in DispatchNames : service_dispatch(method)


(***************************************************************************)
(* RingBuffer::create (ring_buffer.cpp 115-157) and validate_header        *)
(* (547-556).  The header lives in the mapping, which outlives close().    *)
(* The producer's header stores and the consumer's header loads are plain  *)
(* accesses of two processes: each is a step, and the stores become        *)
(* visible in any order the atomics between them allow.                    *)
(***************************************************************************)
MAGIC_NUMBER == 1112690758

HeaderStores == {"magic_number", "version", "buffer_size", "write_pos",
                 "read_pos", "initialized"}

\* the fields validate_header loads, in the order it loads them
ValidatedFields == <<"magic_number", "version", "buffer_size", "initialized">>

CreateModes == {"CREATE_OR_OPEN", "CREATE_ONLY"}

\* config_.buffer_size of the producer, and those a consumer is given
ProducerSize == Capacity

ConsumerSizes == {Capacity, Capacity + 1}

\* what lines 135-140 store into a field
StoreValue(field) ==
    CASE field = "magic_number" -> MAGIC_NUMBER
      [] field = "version" -> 1
      [] field = "buffer_size" -> ProducerSize
      [] field = "write_pos" -> 0
      [] field = "read_pos" -> 0
      [] field = "initialized" -> 1

\* a store may become visible once the stores it cannot pass are: the
\* atomic store of write_pos keeps the plain stores written before it
\* before it, and read_pos follows write_pos; the plain store of
\* initialized is held by nothing
MayCommit(field, pending) ==
    /\ field \in pending
    /\ field = "write_pos" =>
          pending \cap {"magic_number", "version", "buffer_size"} = {}
    /\ field = "read_pos" => "write_pos" \notin pending

\* validate_header accepts any version
header_field_ok_any_version(field, value, size) ==
    CASE field = "magic_number" -> value = MAGIC_NUMBER
      [] field = "version" -> TRUE
      [] field = "buffer_size" -> value = size
      [] field = "initialized" -> value = 1

\* validate_header does not look at initialized
header_field_ok_uninitialized(field, value, size) ==
    CASE field = "magic_number" -> value = MAGIC_NUMBER
      [] field = "version" -> value = 1
      [] field = "buffer_size" -> value = size
      [] field = "initialized" -> TRUE

\* one comparison of validate_header
header_field_ok(field, value, size) ==
    CASE field = "magic_number" -> value = MAGIC_NUMBER
      [] field = "version" -> value = 1
      [] field = "buffer_size" -> value = size
      [] field = "initialized" -> value = 1

\* validate_header on a header nobody is writing
validate_header(header, size) ==
    \A i \in 1..Len(ValidatedFields) :
       header_field_ok(ValidatedFields[i], header[ValidatedFields[i]], size)

\* create(mode) on the producer's side: the mapping is there; the branch
\* at 132-133 decides whether the header is written
producer_create(mode) ==
    /\ pcreate.pc = "idle" /\ ~pcreate.connected
    /\ pcreate.n < MaxCreates
    /\ pcreate' = [pcreate EXCEPT
          !.n = @ + 1, !.mode = mode, !.result = "none",
          !.pc = IF mode = "CREATE_ONLY"
                     \/ shm_header.magic_number # MAGIC_NUMBER
                 THEN "storing" ELSE "validating",
          !.pending = IF mode = "CREATE_ONLY"
                          \/ shm_header.magic_number # MAGIC_NUMBER
                      THEN HeaderStores ELSE {}]
    /\ UNCHANGED <<shm_header, ccreate>>
    /\ UNCHANGED outsideHdr

\* one of the stores of lines 135-140 reaches the mapping
producer_store(field) ==
    /\ pcreate.pc = "storing"
    /\ MayCommit(field, pcreate.pending)
    /\ shm_header' = [shm_header EXCEPT ![field] = StoreValue(field)]
    /\ pcreate' = [pcreate EXCEPT
          !.pending = @ \ {field},
          !.pc = IF pcreate.pending = {field} THEN "validating" ELSE "storing"]
    /\ UNCHANGED ccreate
    /\ UNCHANGED outsideHdr

\* lines 144-150: validate_header, then initialized_ = true, or close()
producer_validate ==
    /\ pcreate.pc = "validating"
    /\ pcreate' = [pcreate EXCEPT
          !.pc = "idle",
          !.connected = validate_header(shm_header, ProducerSize),
          !.result = IF validate_header(shm_header, ProducerSize)
                     THEN "true" ELSE "false"]
    /\ UNCHANGED <<shm_header, ccreate>>
    /\ UNCHANGED outsideHdr

\* RingBuffer::close on either side: the view is unmapped, the mapping stays
hdr_close(side) ==
    /\ IF side = "producer"
       THEN /\ pcreate.connected
            /\ pcreate' = [pcreate EXCEPT !.connected = FALSE]
            /\ UNCHANGED ccreate
       ELSE /\ ccreate.pc = "idle" /\ ccreate.n > 0
            /\ ccreate.connected \/ ccreate.seen # <<>>
            /\ ccreate' = [ccreate EXCEPT !.connected = FALSE, !.seen = <<>>]
            /\ UNCHANGED pcreate
    /\ UNCHANGED shm_header
    /\ UNCHANGED outsideHdr

\* a connected producer writes a byte, a connected consumer reads one
hdr_traffic(side) ==
    /\ IF side = "producer"
       THEN /\ pcreate.connected
            /\ shm_header.write_pos - shm_header.read_pos
                  < shm_header.buffer_size
            /\ shm_header.write_pos < MaxCreates
            /\ shm_header' = [shm_header EXCEPT !.write_pos = @ + 1]
       ELSE /\ ccreate.connected
            /\ shm_header.read_pos < shm_header.write_pos
            /\ shm_header' = [shm_header EXCEPT !.read_pos = @ + 1]
    /\ UNCHANGED <<pcreate, ccreate>>
    /\ UNCHANGED outsideHdr

\* create(OPEN_ONLY) with config_.buffer_size = size: the branch at 132-133
\* is not taken; validate_header follows
consumer_create(size) ==
    /\ ccreate.pc = "idle" /\ ~ccreate.connected
    /\ ccreate.n < MaxCreates
    /\ ccreate' = [ccreate EXCEPT !.n = @ + 1, !.pc = "validating",
                                  !.size = size, !.seen = <<>>,
                                  !.result = "none"]
    /\ UNCHANGED <<shm_header, pcreate>>
    /\ UNCHANGED outsideHdr

\* validate_header loads the next field; a comparison that fails ends it
\* (&&) with close() and false, the last one that holds with
\* initialized_ = true
consumer_load ==
    /\ ccreate.pc = "validating"
    /\ LET field == ValidatedFields[Len(ccreate.seen) + 1]
           value == shm_header[field]
           seen == Append(ccreate.seen, value)
           ok == header_field_ok(field, value, ccreate.size)
           last == Len(seen) = Len(ValidatedFields)
       IN ccreate' = [ccreate EXCEPT
             !.seen = seen,
             !.pc = IF ok /\ ~last THEN "validating" ELSE "idle",
             !.result = IF ~ok THEN "false"
                        ELSE IF last THEN "true" ELSE "none",
             !.connected = ok /\ last,
             !.at = [header |-> shm_header, pending |-> pcreate.pending,
                     creation |-> pcreate.n]]
    /\ UNCHANGED <<shm_header, pcreate>>
    /\ UNCHANGED outsideHdr

\* a mapping just made by the system (all zero) and two objects not yet
\* connected
InitHdr ==
    /\ shm_header = [f \in HeaderStores |-> 0]
    /\ pcreate = [pc |-> "idle", n |-> 0, connected |-> FALSE,
                  result |-> "none", mode |-> "none", pending |-> {}]
    /\ ccreate = [pc |-> "idle", n |-> 0, connected |-> FALSE,
                  result |-> "none", size |-> 0, seen |-> <<>>,
                  at |-> [header |-> [f \in HeaderStores |-> 0],
                          pending |-> {}, creation |-> 0]]

NextHdr ==
    \/ \E mode \in CreateModes : producer_create(mode)
    \/ \E field \in HeaderStores : producer_store(field)
    \/ producer_validate
    \/ \E side \in {"producer", "consumer"} : hdr_close(side)
    \/ \E side \in {"producer", "consumer"} : hdr_traffic(side)
    \/ \E size \in ConsumerSizes : consumer_create(size)
    \/ consumer_load


(***************************************************************************)
(* SharedMemoryManager with its threads (shared_memory_manager.cpp 79-145, *)
(* 147-220, 359-386).  Every test of running_ and every call into the ring *)
(* buffer is a step.  What the ring holds is left open: a wait_for_data    *)
(* or a peek on an open ring may find data or not.                         *)
(***************************************************************************)
ManagerThreads == {"worker", "heartbeat", "application"}

\* where a thread goes when its receive_message or send_message returns
Returned_to(t) ==
    CASE t = "worker" -> "c_test"
      [] t = "heartbeat" -> "h_sleep"
      [] t = "application" -> "idle"

\* a call into *ring_buffer_: the first one made after stop() has closed or
\* freed the ring is noted
RingOp(t, op) ==
    late' = IF sm.ring_buffer_ \in {"closed", "null"} /\ late = {}
            THEN {<<t, op>>} ELSE late

\* start_producer() / start_consumer(); `created` is what create() returns
sm_start(role, created) ==
    /\ ctl.pc = "idle"
    /\ ctl' = [ctl EXCEPT !.op = "start_" \o role,
                          !.ret = IF sm.running_ THEN "false"
                                  ELSE IF created THEN "true" ELSE "false"]
    /\ IF sm.running_
       THEN UNCHANGED <<sm, mt>>
       ELSE IF ~created
       THEN /\ sm' = [sm EXCEPT !.ring_buffer_ = "unopened"]
            /\ UNCHANGED mt
       ELSE /\ sm' = [sm EXCEPT !.ring_buffer_ = "open",
                                !.running_ = TRUE,
                                !.is_producer_ = (role = "producer") \/ @,
                                !.is_consumer_ = (role = "consumer") \/ @,
                                !.worker_thread_ = "started",
                                !.heartbeat_thread_ = "started"]
            /\ mt' = [mt EXCEPT !["worker"] = "entry",
                                !["heartbeat"] = "entry"]
    /\ UNCHANGED late
    /\ UNCHANGED outsideMgr

\* stop(), lines 121-127: the test of running_ and the two stores
sm_stop_begin ==
    /\ ctl.pc = "idle"
    /\ IF ~sm.running_
       THEN /\ ctl' = [ctl EXCEPT !.op = "stop", !.ret = "void"]
            /\ UNCHANGED sm
       ELSE /\ ctl' = [ctl EXCEPT !.op = "stop", !.ret = "none",
                                  !.pc = "close"]
            /\ sm' = [sm EXCEPT !.running_ = FALSE,
                                !.heartbeat_active_ = FALSE]
    /\ UNCHANGED <<mt, late>>
    /\ UNCHANGED outsideMgr

\* stop(), lines 129-132: ring_buffer_->close()
sm_stop_close ==
    /\ ctl.pc = "close"
    /\ sm' = [sm EXCEPT !.ring_buffer_ = IF @ = "null" THEN @ ELSE "closed"]
    /\ ctl' = [ctl EXCEPT !.pc = "join_worker"]
    /\ UNCHANGED <<mt, late>>
    /\ UNCHANGED outsideMgr

\* stop(), lines 134-140: join() returns when the thread function has
\* returned
sm_stop_join(t) ==
    /\ \/ ctl.pc = "join_worker" /\ t = "worker"
       \/ ctl.pc = "join_heartbeat" /\ t = "heartbeat"
    /\ mt[t] = "exit"
    /\ sm' = IF t = "worker"
             THEN [sm EXCEPT !.worker_thread_ = "joined"]
             ELSE [sm EXCEPT !.heartbeat_thread_ = "joined"]
    /\ ctl' = [ctl EXCEPT !.pc = IF t = "worker" THEN "join_heartbeat"
                                 ELSE "reset"]
    /\ UNCHANGED <<mt, late>>
    /\ UNCHANGED outsideMgr

\* stop(), lines 142-144
sm_stop_end ==
    /\ ctl.pc = "reset"
    /\ sm' = [sm EXCEPT !.ring_buffer_ = "null", !.is_producer_ = FALSE,
                        !.is_consumer_ = FALSE]
    /\ ctl' = [ctl EXCEPT !.pc = "idle", !.ret = "void"]
    /\ UNCHANGED <<mt, late>>
    /\ UNCHANGED outsideMgr

\* worker_thread(), lines 360-373: the role tests, the loop tests and the
\* producer's sleep
worker_thread_step ==
    /\ mt["worker"] \in {"entry", "p_test", "p_sleep", "c_test"}
    /\ mt' = [mt EXCEPT !["worker"] =
          CASE @ = "entry" -> IF sm.is_producer_ THEN "p_test"
                              ELSE IF sm.is_consumer_ THEN "c_test"
                              ELSE "exit"
            [] @ = "p_test" -> IF sm.running_ THEN "p_sleep" ELSE "exit"
            [] @ = "p_sleep" -> "p_test"
            [] @ = "c_test" -> IF sm.running_ THEN "rm_entry" ELSE "exit"]
    /\ UNCHANGED <<sm, ctl, late>>
    /\ UNCHANGED outsideMgr

\* heartbeat_thread(), lines 377-385, up to the call of send_heartbeat
heartbeat_thread_step ==
    /\ mt["heartbeat"] \in {"entry", "h_test", "h_sleep"}
    /\ mt' = [mt EXCEPT !["heartbeat"] =
          CASE @ = "entry" -> "h_test"
            [] @ = "h_test" -> IF sm.running_ /\ sm.heartbeat_active_
                               THEN IF sm.is_producer_ THEN "sm_entry"
                                    ELSE "h_sleep"
                               ELSE "exit"
            [] @ = "h_sleep" -> "h_test"]
    /\ sm' = IF mt["heartbeat"] = "entry"
             THEN [sm EXCEPT !.heartbeat_active_ = TRUE] ELSE sm
    /\ UNCHANGED <<ctl, late>>
    /\ UNCHANGED outsideMgr

\* the application calls send_message or receive_message
application_call(op) ==
    /\ mt["application"] = "idle"
    /\ mt' = [mt EXCEPT !["application"] =
                 IF op = "send_message" THEN "sm_entry" ELSE "rm_entry"]
    /\ UNCHANGED <<sm, ctl, late>>
    /\ UNCHANGED outsideMgr

\* send_message / receive_message, lines 148-150 and 183-185
manager_entry(t) ==
    /\ mt[t] \in {"sm_entry", "rm_entry"}
    /\ mt' = [mt EXCEPT ![t] =
                 IF ~sm.running_ \/ sm.ring_buffer_ = "null"
                 THEN Returned_to(t)
                 ELSE IF mt[t] = "sm_entry" THEN "write" ELSE "wait"]
    /\ UNCHANGED <<sm, ctl, late>>
    /\ UNCHANGED outsideMgr

\* send_message, line 169: ring_buffer_->write
manager_write(t) ==
    /\ mt[t] = "write"
    /\ RingOp(t, "write")
    /\ mt' = [mt EXCEPT ![t] = Returned_to(t)]
    /\ UNCHANGED <<sm, ctl>>
    /\ UNCHANGED outsideMgr

\* receive_message, line 188: ring_buffer_->wait_for_data; on a closed ring
\* it returns false (ring_buffer.cpp 412-414)
manager_wait_for_data(t, got) ==
    /\ mt[t] = "wait"
    /\ RingOp(t, "wait_for_data")
    /\ mt' = [mt EXCEPT ![t] = IF sm.ring_buffer_ = "open" /\ got
                               THEN "peek" ELSE Returned_to(t)]
    /\ UNCHANGED <<sm, ctl>>
    /\ UNCHANGED outsideMgr

\* receive_message, lines 196-207: ring_buffer_->peek and deserialize
manager_peek(t, got) ==
    /\ mt[t] = "peek"
    /\ RingOp(t, "peek")
    /\ mt' = [mt EXCEPT ![t] = IF sm.ring_buffer_ = "open" /\ got
                               THEN "skip" ELSE Returned_to(t)]
    /\ UNCHANGED <<sm, ctl>>
    /\ UNCHANGED outsideMgr

\* receive_message, lines 210-219: ring_buffer_->skip, then the handler
manager_skip(t) ==
    /\ mt[t] = "skip"
    /\ RingOp(t, "skip")
    /\ mt' = [mt EXCEPT ![t] = Returned_to(t)]
    /\ UNCHANGED <<sm, ctl>>
    /\ UNCHANGED outsideMgr

\* shared_memory_manager.h 165-172, 186: a manager just constructed
InitMgr ==
    /\ sm = [running_ |-> FALSE, heartbeat_active_ |-> FALSE,
             is_producer_ |-> FALSE, is_consumer_ |-> FALSE,
             ring_buffer_ |-> "null", worker_thread_ |-> "null",
             heartbeat_thread_ |-> "null"]
    /\ ctl = [pc |-> "idle", op |-> "none", ret |-> "none"]
    /\ mt = [t \in ManagerThreads |->
                IF t = "application" THEN "idle" ELSE "none"]
    /\ late = {}

NextMgr ==
    \/ \E role \in {"producer", "consumer"}, created \in BOOLEAN :
          sm_start(role, created)
    \/ sm_stop_begin
    \/ sm_stop_close
    \/ \E t \in {"worker", "heartbeat"} : sm_stop_join(t)
    \/ sm_stop_end
    \/ worker_thread_step
    \/ heartbeat_thread_step
    \/ \E op \in {"send_message", "receive_message"} : application_call(op)
    \/ \E t \in ManagerThreads : manager_entry(t)
    \/ \E t \in ManagerThreads : manager_write(t)
    \/ \E t \in ManagerThreads, got \in BOOLEAN : manager_wait_for_data(t, got)
    \/ \E t \in ManagerThreads, got \in BOOLEAN : manager_peek(t, got)
    \/ \E t \in ManagerThreads : manager_skip(t)


(***************************************************************************)
(* Threads of a running producer manager (application, heartbeat thread)   *)
(* and of a running consumer manager (application, worker thread) on one   *)
(* ring (shared_memory_manager.cpp 147-220, 359-409).  RingBuffer::write   *)
(* is two steps, the loads of the cursors and the copy with the store of   *)
(* write_pos; peek and skip are one step each.                             *)
(***************************************************************************)
\* shared_memory_manager.h:28
CONTROL == 2

Senders == {"application", "heartbeat"}

Receivers == {"application", "worker"}

\* the types the application sends; a handler is registered for DATA only
SentTypes == {DATA, CONTROL}

HandledTypes == {DATA}

\* shared_memory_manager.cpp:16-27, the id being the value fetch_add returned
BuiltMessage(id, type, data) ==
    [message_id |-> id, message_type |-> type, payload_size |-> Len(data),
     timestamp |-> 0, payload |-> data]

\* header_->write_pos
WritePos == shared.read_pos + Len(shared.cells)

\* the unread cells after `bytes` were copied to position wp and write_pos
\* was set to wp + Len(bytes): what lay at or after wp is replaced, and a
\* cell below wp that no write has filled holds the zero of the mapping
CellsAfterWrite(wp, bytes) ==
    [p \in 1..(IF wp + Len(bytes) > shared.read_pos
               THEN wp + Len(bytes) - shared.read_pos ELSE 0) |->
        IF shared.read_pos + p - 1 >= wp
        THEN bytes[shared.read_pos + p - wp]
        ELSE IF p <= Len(shared.cells) THEN shared.cells[p] ELSE 0]

\* send_message(type, data, size) up to the loads in RingBuffer::write
\* (177-180, 147-169, ring_buffer.cpp 193-205); a heartbeat comes from
\* send_heartbeat (322-324)
spsc_send_begin(t, type, data) ==
    /\ snd[t].pc = "idle"
    /\ built < MaxData + 1
    /\ t = "heartbeat" <=> type = HEARTBEAT
    /\ type = HEARTBEAT => data = <<>>
    /\ LET message == BuiltMessage(built + 1, type, data)
           serialized == serialize(message)
       IN snd' = [snd EXCEPT ![t] =
             IF /\ message.payload_size <= MaxMessageCells
                /\ Len(serialized) <= MaxMessageCells
                /\ Len(serialized) <= RingCells - Len(shared.cells)
             THEN [pc |-> "write", message |-> message, wp |-> WritePos]
             ELSE [pc |-> "idle", message |-> message, wp |-> 0]]
    /\ built' = built + 1
    /\ UNCHANGED <<shared, rcv, wrote, handled>>
    /\ UNCHANGED outsideSpsc

\* RingBuffer::write from the memcpy to the store of write_pos
\* (ring_buffer.cpp 207-233)
spsc_send_end(t) ==
    /\ snd[t].pc = "write"
    /\ shared' = [shared EXCEPT
          !.cells = CellsAfterWrite(snd[t].wp, serialize(snd[t].message))]
    /\ wrote' = Append(wrote, snd[t].message)
    /\ snd' = [snd EXCEPT ![t].pc = "idle"]
    /\ UNCHANGED <<rcv, built, handled>>
    /\ UNCHANGED outsideSpsc

\* receive_message: wait_for_data finds data (183-190)
spsc_receive_begin(t) ==
    /\ rcv[t].pc = "idle"
    /\ shared.cells # <<>>
    /\ rcv' = [rcv EXCEPT ![t].pc = "peek"]
    /\ UNCHANGED <<shared, snd, built, wrote, handled>>
    /\ UNCHANGED outsideSpsc

\* receive_message: peek up to max_message_size bytes and deserialize them
\* (193-207)
spsc_receive_peek(t) ==
    /\ rcv[t].pc = "peek"
    /\ LET buffer == SubSeq(shared.cells, 1,
                            Min(Len(shared.cells), MaxMessageCells))
       IN rcv' = [rcv EXCEPT ![t] =
             IF buffer # <<>> /\ deserialize(buffer).ok
             THEN [pc |-> "skip", buffer |-> buffer]
             ELSE [pc |-> "idle", buffer |-> <<>>]]
    /\ UNCHANGED <<shared, snd, built, wrote, handled>>
    /\ UNCHANGED outsideSpsc

\* receive_message: skip(bytes_read), whose result is not looked at
\* (210; ring_buffer.cpp 351-372)
spsc_receive_skip(t) ==
    /\ rcv[t].pc = "skip"
    /\ LET bytes == Len(rcv[t].buffer)
       IN shared' = IF bytes > Len(shared.cells) THEN shared
                    ELSE [cells |-> SubSeq(shared.cells, bytes + 1,
                                           Len(shared.cells)),
                          read_pos |-> shared.read_pos + bytes]
    /\ rcv' = [rcv EXCEPT ![t].pc = "process"]
    /\ UNCHANGED <<snd, built, wrote, handled>>
    /\ UNCHANGED outsideSpsc

\* process_message (388-409) under handlers_mutex_: a heartbeat sets
\* last_heartbeat_, a type with a handler is handed to it, any other type
\* is passed over
spsc_process_message(t) ==
    /\ rcv[t].pc = "process"
    /\ LET message == deserialize(rcv[t].buffer)
       IN handled' = IF message.message_type \in HandledTypes
                     THEN Append(handled,
                                 [message_id |-> message.message_id,
                                  payload |-> message.payload])
                     ELSE handled
    /\ rcv' = [rcv EXCEPT ![t] = [pc |-> "idle", buffer |-> <<>>]]
    /\ UNCHANGED <<shared, snd, built, wrote>>
    /\ UNCHANGED outsideSpsc

\* both managers started on an empty ring, no message built yet
InitSpsc ==
    /\ shared = [cells |-> <<>>, read_pos |-> 0]
    /\ snd = [t \in Senders |-> [pc |-> "idle",
                                 message |-> BuiltMessage(0, 0, <<>>),
                                 wp |-> 0]]
    /\ rcv = [t \in Receivers |-> [pc |-> "idle", buffer |-> <<>>]]
    /\ built = 0
    /\ wrote = <<>>
    /\ handled = <<>>

NextSpsc ==
    \/ \E t \in Senders, type \in SentTypes \cup {HEARTBEAT},
          data \in Payloads : spsc_send_begin(t, type, data)
    \/ \E t \in Senders : spsc_send_end(t)
    \/ \E t \in Receivers : spsc_receive_begin(t)
    \/ \E t \in Receivers : spsc_receive_peek(t)
    \/ \E t \in Receivers : spsc_receive_skip(t)
    \/ \E t \in Receivers : spsc_process_message(t)


(***************************************************************************)
(* receive_message (shared_memory_manager.cpp 182-220) called with a       *)
(* timeout on a ring into which a process writes a message in two          *)
(* RingBuffer::write calls: the header with the first bytes, then the rest.*)
(***************************************************************************)
\* timeout_ms handed to receive_message
ReceiveTimeouts == {1, 2}

\* the writing process writes the first `first` cells of a message
part_write_first(data, first) ==
    /\ pwriter.pc = "idle"
    /\ pwriter.n < MaxData
    /\ LET message == BuiltMessage(pwriter.n + 1, DATA, data)
           serialized == serialize(message)
       IN /\ first \in HeaderSize..Len(serialized)
          /\ Len(serialized) <= RingCells - Len(pring)
          /\ pring' = pring \o SubSeq(serialized, 1, first)
          /\ pwriter' = [pc |-> IF first = Len(serialized) THEN "idle"
                                ELSE "rest",
                         n |-> pwriter.n + 1, message |-> message,
                         rest |-> SubSeq(serialized, first + 1,
                                         Len(serialized))]
    /\ prx' = IF prx.pc = "waiting" THEN [prx EXCEPT !.pc = "woken"] ELSE prx
    /\ UNCHANGED ptime
    /\ UNCHANGED outsidePart

\* the writing process writes the rest of the message
part_write_rest ==
    /\ pwriter.pc = "rest"
    /\ pring' = pring \o pwriter.rest
    /\ pwriter' = [pwriter EXCEPT !.pc = "idle", !.rest = <<>>]
    /\ prx' = IF prx.pc = "waiting" THEN [prx EXCEPT !.pc = "woken"] ELSE prx
    /\ UNCHANGED ptime
    /\ UNCHANGED outsidePart

\* lines 193-219 of receive_message: peek, deserialize, skip; what the call
\* returns, what it consumed and what it found
receive_after_wait(called, timeout) ==
    LET buffer == SubSeq(pring, 1, Min(Len(pring), MaxMessageCells))
        message == deserialize(buffer)
    IN [pc |-> "idle", called |-> called, timeout |-> timeout,
        returned |-> ptime,
        ret |-> buffer # <<>> /\ message.ok,
        consumed |-> IF buffer # <<>> /\ message.ok THEN Len(buffer) ELSE 0,
        short |-> /\ Len(buffer) >= HeaderSize
                  /\ buffer[3] > Len(buffer) - HeaderSize,
        message |-> IF buffer # <<>> /\ message.ok
                    THEN [message_id |-> message.message_id,
                          payload |-> message.payload]
                    ELSE [message_id |-> 0, payload |-> <<>>],
        pending |-> pwriter.pc = "rest"]

\* receive_message(message, timeout): wait_for_data returns at once when
\* the ring is not empty (ring_buffer.cpp 417-419) and blocks on the event
\* otherwise
part_receive_call(timeout) ==
    /\ prx.pc = "idle"
    /\ IF pring # <<>>
       THEN /\ prx' = receive_after_wait(ptime, timeout)
            /\ pring' = SubSeq(pring, prx'.consumed + 1, Len(pring))
       ELSE /\ prx' = [prx EXCEPT !.pc = "waiting", !.called = ptime,
                                  !.timeout = timeout]
            /\ UNCHANGED pring
    /\ UNCHANGED <<pwriter, ptime>>
    /\ UNCHANGED outsidePart

\* the wait on data_ready ends by a signal: the call goes on to peek
part_receive_woken ==
    /\ prx.pc = "woken"
    /\ prx' = receive_after_wait(prx.called, prx.timeout)
    /\ pring' = SubSeq(pring, prx'.consumed + 1, Len(pring))
    /\ UNCHANGED <<pwriter, ptime>>
    /\ UNCHANGED outsidePart

\* the wait on data_ready ends by the timeout: the call returns false
part_receive_timeout ==
    /\ prx.pc = "waiting"
    /\ ptime - prx.called >= prx.timeout
    /\ prx' = [prx EXCEPT !.pc = "idle", !.returned = ptime, !.ret = FALSE,
                          !.consumed = 0, !.short = FALSE]
    /\ UNCHANGED <<pring, pwriter, ptime>>
    /\ UNCHANGED outsidePart

\* time passes while no wait is due to end
part_tick ==
    /\ ptime < MaxTime
    /\ prx.pc # "woken"
    /\ ~(prx.pc = "waiting" /\ ptime - prx.called >= prx.timeout)
    /\ ptime' = ptime + 1
    /\ UNCHANGED <<pring, pwriter, prx>>
    /\ UNCHANGED outsidePart

\* an empty ring, no call made
InitPart ==
    /\ pring = <<>>
    /\ pwriter = [pc |-> "idle", n |-> 0,
                  message |-> BuiltMessage(0, 0, <<>>), rest |-> <<>>]
    /\ prx = [pc |-> "idle", called |-> 0, timeout |-> 0, returned |-> 0,
              ret |-> FALSE, consumed |-> 0, short |-> FALSE,
              message |-> [message_id |-> 0, payload |-> <<>>],
              pending |-> FALSE]
    /\ ptime = 1

NextPart ==
    \/ \E data \in Payloads, first \in 1..MaxMessageCells :
          part_write_first(data, first)
    \/ part_write_rest
    \/ \E timeout \in ReceiveTimeouts : part_receive_call(timeout)
    \/ part_receive_woken
    \/ part_receive_timeout
    \/ part_tick


(***************************************************************************)
(* Message ids (shared_memory_manager.cpp 10-27, 432-442).  next_id_ is a  *)
(* std::atomic<uint32_t>; its value is kept as the pair of its high and    *)
(* low 16 bits, so that fetch_add wraps at 2^32 as the hardware does.      *)
(***************************************************************************)
Half == 65536

U32(hi, lo) == [hi |-> hi, lo |-> lo]

\* uint32_t addition
U32Add(a, b) ==
    [hi |-> (a.hi + b.hi + ((a.lo + b.lo) \div Half)) % Half,
     lo |-> (a.lo + b.lo) % Half]

U32Less(a, b) == a.hi < b.hi \/ (a.hi = b.hi /\ a.lo < b.lo)

\* the lengths of the runs of messages built without a look at each one:
\* 0xFFFE and 0xFFFF0000
LongRuns == {U32(0, Half - 2), U32(Half - 1, 0)}

\* shared_memory_manager.h:70
is_valid(message) == message.message_id # U32(0, 0)

\* shared_memory_manager.cpp:432-442
validate_message(message) ==
    /\ is_valid(message)
    /\ message.payload_size <= MaxMessageCells

\* SharedMemoryMessage(): the header is zeroed
DefaultMessage == [message_id |-> U32(0, 0), payload_size |-> 0]

\* SharedMemoryMessage(type, data, size) in thread t: fetch_add(1) and the
\* rest of the constructor
message_construct(t) ==
    /\ builders[t].pc = "idle"
    /\ id_hist.n < MaxBuilt
    /\ id_counter' = U32Add(id_counter, U32(0, 1))
    /\ builders' = [builders EXCEPT ![t] =
          [pc |-> "built", sent |-> "none",
           message |-> [message_id |-> id_counter, payload_size |-> 0]]]
    /\ id_hist' = [n |-> id_hist.n + 1,
                   first |-> IF id_hist.n = 0 /\ id_hist.runs = {}
                             THEN id_counter ELSE id_hist.first,
                   last |-> id_counter,
                   above |-> \/ id_hist.n = 0 /\ id_hist.runs = {}
                             \/ U32Less(id_hist.max, id_counter),
                   max |-> IF U32Less(id_hist.max, id_counter)
                           THEN id_counter ELSE id_hist.max,
                   runs |-> id_hist.runs]
    /\ UNCHANGED outsideIds

\* SharedMemoryMessage() in thread t
message_construct_default(t) ==
    /\ builders[t].pc = "idle"
    /\ builders' = [builders EXCEPT ![t] =
          [pc |-> "default", sent |-> "none", message |-> DefaultMessage]]
    /\ UNCHANGED <<id_counter, id_hist>>
    /\ UNCHANGED outsideIds

\* a run of `run` messages built one after the other, none of them past
\* the largest id: the counter moves on by that many
message_construct_run(run) ==
    /\ run \notin id_hist.runs
    /\ \A t \in 1..NumThreads : builders[t].pc = "idle"
    /\ id_counter # U32(0, 0)
    /\ U32Less(id_counter, U32Add(id_counter, run))
    /\ id_counter' = U32Add(id_counter, run)
    /\ id_hist' = [id_hist EXCEPT
          !.runs = @ \cup {run},
          !.first = IF id_hist.n = 0 /\ id_hist.runs = {}
                    THEN id_counter ELSE @,
          !.max = U32Add(id_counter, U32Add(run, U32(Half - 1, Half - 1)))]
    /\ UNCHANGED builders
    /\ UNCHANGED outsideIds

\* send_message(message) up to validate_message (147-155)
message_send(t) ==
    /\ builders[t].pc \in {"built", "default"}
    /\ builders' = [builders EXCEPT
          ![t].pc = "idle",
          ![t].sent = IF validate_message(builders[t].message)
                      THEN "accepted" ELSE "rejected"]
    /\ UNCHANGED <<id_counter, id_hist>>
    /\ UNCHANGED outsideIds

\* shared_memory_manager.cpp:10: next_id_(1)
InitIds ==
    /\ id_counter = U32(0, 1)
    /\ builders = [t \in 1..NumThreads |->
                      [pc |-> "idle", sent |-> "none",
                       message |-> DefaultMessage]]
    /\ id_hist = [n |-> 0, first |-> U32(0, 0), last |-> U32(0, 0),
                  above |-> TRUE, max |-> U32(0, 0), runs |-> {}]

NextIds ==
    \/ \E t \in 1..NumThreads : message_construct(t)
    \/ \E t \in 1..NumThreads : message_construct_default(t)
    \/ \E run \in LongRuns : message_construct_run(run)
    \/ \E t \in 1..NumThreads : message_send(t)


(***************************************************************************)
(* StreamReader as an object: data_, position_ and a sequence of reads     *)
(* (serialization.cpp 327-407, rpc_core.cpp 179-254).  position_ is a      *)
(* size_t, counted from 0; every read records the error it threw and the   *)
(* range of data_ its value was built from.                                *)
(***************************************************************************)
\* the int32 words a buffer starts with: lengths that are negative, zero,
\* within the buffer and far beyond it
ReaderWords == {-5, -4, -1, 0, 1, 2147483647}

RECURSIVE WordsBytes(_)
WordsBytes(ws) ==
    IF ws = <<>> THEN <<>> ELSE write_int32(Head(ws)) \o WordsBytes(Tail(ws))

ReaderBuffers ==
    { WordsBytes(ws) \o [i \in 1..k |-> 7] :
        ws \in UNION { [1..n -> ReaderWords] : n \in 0..MaxReaderWords },
        k \in 0..MaxReaderTail }

\* the test is never true
never_exceeds(position, length, size) == FALSE

\* position_ + n > data_.size() for an int32 n, computed in size_t (64 bits,
\* modulo 2^64): a negative n adds 2^64 - |n|, so the sum is position_ - |n|
\* when that is not negative and a number near 2^64 otherwise
exceeds(position, length, size) ==
    IF length < 0 THEN position + length < 0
    ELSE length > size - position

\* sizeof of the fixed-size reads; rpc_core.cpp reads a bool as an int32.
\* read_uint32 and read_float are read_int32 with another type of the same
\* size, read_double is read_int64 likewise
FixedSize(rt, type) ==
    CASE type = "int32" -> 4
      [] type = "int64" -> 8
      [] type = "bool" -> IF rt = "rpc_core.cpp" THEN 4 ELSE 1

FixedTypes == {"int32", "int64", "bool"}

ReadRecord(op, error, first, last, short, length) ==
    [op |-> op, error |-> error, first |-> first, last |-> last,
     short |-> short, length |-> length]

\* StreamReader(data)
reader_construct(rt, data) ==
    /\ sreader.rt = "none"
    /\ sreader' = [rt |-> rt, data_ |-> data, position_ |-> 0,
              last |-> ReadRecord("none", "none", 0, 0, FALSE, 0)]
    /\ UNCHANGED outsideReader

\* read_int32 .. read_bool
reader_read_fixed(type) ==
    /\ sreader.rt # "none"
    /\ LET n == FixedSize(sreader.rt, type)
           size == Len(sreader.data_)
           short == n > size - sreader.position_
       IN sreader' = IF exceeds(sreader.position_, n, size)
                THEN [sreader EXCEPT !.last =
                         ReadRecord(type, "end_of_stream", 0, 0, short, 0)]
                ELSE [sreader EXCEPT
                         !.position_ = @ + n,
                         !.last = ReadRecord(type, "none", sreader.position_,
                                             sreader.position_ + n, short, 0)]
    /\ UNCHANGED outsideReader

\* read_string and read_bytes: the length is read with read_int32, then the
\* range [position_, position_ + length) is tested and the value built.
\* A negative length that passes the test gives a range that ends before
\* it starts: undefined behaviour, which throws from the allocation
\* (std::length_error) or yields an empty value and moves position_ back
reader_read_range(op, ub) ==
    /\ sreader.rt # "none"
    /\ LET size == Len(sreader.data_)
           at == sreader.position_
       IN IF exceeds(at, 4, size)
          THEN sreader' = [sreader EXCEPT !.last =
                        ReadRecord(op, "end_of_stream", 0, 0, TRUE, 0)]
          ELSE LET length == s32(sreader.data_, at + 1)
                   from == at + 4
                   short == length > size - from
               IN sreader' =
                  IF op = "read_string" /\ sreader.rt = "rpc_core.cpp"
                        /\ length \in {-1, 0}
                  THEN [sreader EXCEPT
                          !.position_ = from,
                          !.last = ReadRecord(op, "none", from, from,
                                              short, length)]
                  ELSE IF exceeds(from, length, size)
                  THEN [sreader EXCEPT
                          !.position_ = from,
                          !.last = ReadRecord(op, "end_of_stream", 0, 0,
                                              short, length)]
                  ELSE IF length < 0 /\ ub = "throws"
                  THEN [sreader EXCEPT
                          !.position_ = from,
                          !.last = ReadRecord(op, "length_error", 0, 0,
                                              short, length)]
                  ELSE IF length < 0
                  THEN [sreader EXCEPT
                          !.position_ = from + length,
                          !.last = ReadRecord(op, "none", from, from,
                                              short, length)]
                  ELSE [sreader EXCEPT
                          !.position_ = from + length,
                          !.last = ReadRecord(op, "none", from,
                                              from + length, short, length)]
    /\ UNCHANGED outsideReader

\* no reader yet
InitReader ==
    sreader = [rt |-> "none", data_ |-> <<>>, position_ |-> 0,
          last |-> ReadRecord("none", "none", 0, 0, FALSE, 0)]

NextReader ==
    \/ \E rt \in Runtimes, data \in ReaderBuffers : reader_construct(rt, data)
    \/ \E type \in FixedTypes : reader_read_fixed(type)
    \/ \E op \in {"read_string", "read_bytes"}, ub \in {"throws", "empty"} :
          reader_read_range(op, ub)


(***************************************************************************)
(* One RingBuffer object and every operation on it in every lifecycle      *)
(* state (ring_buffer.cpp 115-423, 573-591).  header_ and buffer_ are null *)
(* until allocate_memory maps the region and again after close.            *)
(***************************************************************************)
CreateOutcomes == {"ok", "no_memory", "no_events"}

\* what a copy through the null buffer_ does: the store faults, or the call
\* goes on to its return
NullCopyOutcomes == {"crash", "goes_on"}

\* the lifecycle state of the specification
Lifecycle(o) ==
    IF o.initialized_ THEN "Initialized"
    ELSE IF o.closed THEN "Closed" ELSE "Uninitialized"

\* get_write_position / get_read_position: 0 through a null header_
get_write_position(o, r) == IF o.header_ THEN r.write_pos ELSE 0

get_read_position(o, r) == IF o.header_ THEN r.read_pos ELSE 0

\* set_write_position / set_read_position: nothing through a null header_
set_write_position(o, r, pos) ==
    IF o.header_ THEN [r EXCEPT !.write_pos = pos] ELSE r

set_read_position(o, r, pos) ==
    IF o.header_ THEN [r EXCEPT !.read_pos = pos] ELSE r

\* memcpy of size bytes of the caller's data to buffer_ + offset, wrapping
CellsWritten(cells, offset, size) ==
    [i \in 1..Capacity |->
        IF \E k \in 0..(size - 1) : (offset + k) % Capacity = i - 1
        THEN 1 ELSE cells[i]]

CallRecord(op, before, ret, count, r) ==
    [op |-> op, before |-> before, ret |-> ret, count |-> count,
     region |-> r]

\* create(mode): the mapping may fail, the events may fail after it
rb_create(mode, outcome) ==
    /\ ulast.ret # "crash"
    /\ IF robj.initialized_
       THEN /\ ulast' = CallRecord("create", Lifecycle(robj), "true", 0, region)
            /\ UNCHANGED <<robj, region>>
       ELSE CASE outcome = "no_memory" ->
                   /\ ulast' = CallRecord("create", Lifecycle(robj), "false",
                                          0, region)
                   /\ UNCHANGED <<robj, region>>
              [] outcome = "no_events" ->
                   /\ robj' = [robj EXCEPT !.header_ = TRUE, !.buffer_ = TRUE]
                   /\ ulast' = CallRecord("create", Lifecycle(robj), "false",
                                          0, region)
                   /\ UNCHANGED region
              [] outcome = "ok" ->
                   /\ robj' = [robj EXCEPT !.header_ = TRUE, !.buffer_ = TRUE,
                                           !.data_ready_event_ = TRUE,
                                           !.initialized_ = TRUE]
                   /\ region' = IF mode = "CREATE_ONLY" \/ ~region.magic
                                THEN [region EXCEPT !.magic = TRUE,
                                                    !.write_pos = 0,
                                                    !.read_pos = 0]
                                ELSE region
                   /\ ulast' = CallRecord("create", Lifecycle(robj), "true",
                                          0, region)
    /\ UNCHANGED outsideUse

\* close()
rb_close ==
    /\ ulast.ret # "crash"
    /\ robj' = [initialized_ |-> FALSE, header_ |-> FALSE, buffer_ |-> FALSE,
                data_ready_event_ |-> FALSE,
                closed |-> robj.closed \/ robj.header_]
    /\ ulast' = CallRecord("close", Lifecycle(robj), "none", 0, region)
    /\ UNCHANGED region
    /\ UNCHANGED outsideUse

\* write(data, size)
rb_write(size) ==
    /\ ulast.ret # "crash"
    /\ region.write_pos < MaxBytes
    /\ LET write_pos_ == get_write_position(robj, region)
           read_pos_ == get_read_position(robj, region)
       IN IF ~robj.initialized_ \/ size = 0
             \/ size > Capacity - (write_pos_ - read_pos_)
          THEN /\ ulast' = CallRecord("write", Lifecycle(robj), "false", 0,
                                      region)
               /\ UNCHANGED region
          ELSE /\ region' = set_write_position(robj,
                      [region EXCEPT !.cells =
                          CellsWritten(@, write_pos_ % Capacity, size)],
                      write_pos_ + size)
               /\ ulast' = CallRecord("write", Lifecycle(robj), "true", 0,
                                      region)
    /\ UNCHANGED robj
    /\ UNCHANGED outsideUse

\* write_atomic(data, size): no test of initialized_
rb_write_atomic(size, ub) ==
    /\ ulast.ret # "crash"
    /\ region.write_pos < MaxBytes
    /\ LET write_pos_ == get_write_position(robj, region)
           read_pos_ == get_read_position(robj, region)
           write_offset == write_pos_ % Capacity
       IN IF size > Capacity - (write_pos_ - read_pos_)
             \/ write_offset + size > Capacity
          THEN /\ ulast' = CallRecord("write_atomic", Lifecycle(robj),
                                      "false", 0, region)
               /\ UNCHANGED region
          ELSE IF ~robj.buffer_ /\ size > 0 /\ ub = "crash"
          THEN /\ ulast' = CallRecord("write_atomic", Lifecycle(robj),
                                      "crash", 0, region)
               /\ UNCHANGED region
          ELSE /\ region' = set_write_position(robj,
                      IF robj.buffer_
                      THEN [region EXCEPT !.cells =
                               CellsWritten(@, write_offset, size)]
                      ELSE region,
                      write_pos_ + size)
               /\ ulast' = CallRecord("write_atomic", Lifecycle(robj),
                                      "true", 0, region)
    /\ UNCHANGED robj
    /\ UNCHANGED outsideUse

\* read(buffer, size, bytes_read) and peek(buffer, size, bytes_read)
rb_read(op, size) ==
    /\ ulast.ret # "crash"
    /\ IF ~robj.initialized_ \/ size = 0
       THEN /\ ulast' = CallRecord(op, Lifecycle(robj), "false", 0, region)
            /\ UNCHANGED region
       ELSE LET available == get_write_position(robj, region)
                                - get_read_position(robj, region)
                n == Min(size, available)
            IN /\ region' = IF op = "read"
                            THEN set_read_position(robj, region,
                                                   region.read_pos + n)
                            ELSE region
               /\ ulast' = CallRecord(op, Lifecycle(robj), "true", n, region)
    /\ UNCHANGED robj
    /\ UNCHANGED outsideUse

\* skip(bytes)
rb_skip(size) ==
    /\ ulast.ret # "crash"
    /\ IF ~robj.initialized_
          \/ size > get_write_position(robj, region)
                       - get_read_position(robj, region)
       THEN /\ ulast' = CallRecord("skip", Lifecycle(robj), "false", 0, region)
            /\ UNCHANGED region
       ELSE /\ region' = set_read_position(robj, region,
                                           region.read_pos + size)
            /\ ulast' = CallRecord("skip", Lifecycle(robj), "true", 0, region)
    /\ UNCHANGED robj
    /\ UNCHANGED outsideUse

\* wait_for_data(timeout_ms) with no writer at work: an empty ring times out
rb_wait_for_data ==
    /\ ulast.ret # "crash"
    /\ ulast' = CallRecord("wait_for_data", Lifecycle(robj),
                  IF ~robj.initialized_ \/ ~robj.data_ready_event_
                  THEN "false"
                  ELSE IF region.write_pos - region.read_pos # 0
                  THEN "true" ELSE "false",
                  0, region)
    /\ UNCHANGED <<robj, region>>
    /\ UNCHANGED outsideUse

\* get_free_space() and get_used_space()
rb_get_space(op) ==
    /\ ulast.ret # "crash"
    /\ LET used == get_write_position(robj, region)
                      - get_read_position(robj, region)
       IN ulast' = CallRecord(op, Lifecycle(robj), "none",
                      IF ~robj.initialized_ THEN 0
                      ELSE IF op = "get_free_space" THEN Capacity - used
                      ELSE used,
                      region)
    /\ UNCHANGED <<robj, region>>
    /\ UNCHANGED outsideUse

\* a constructed RingBuffer; the named region does not exist yet
InitUse ==
    /\ robj = [initialized_ |-> FALSE, header_ |-> FALSE, buffer_ |-> FALSE,
               data_ready_event_ |-> FALSE, closed |-> FALSE]
    /\ region = [magic |-> FALSE, write_pos |-> 0, read_pos |-> 0,
                 cells |-> [i \in 1..Capacity |-> 0]]
    /\ ulast = CallRecord("none", "Uninitialized", "none", 0,
                          [magic |-> FALSE, write_pos |-> 0, read_pos |-> 0,
                           cells |-> [i \in 1..Capacity |-> 0]])

NextUse ==
    \/ \E mode \in CreateModes, outcome \in CreateOutcomes :
          rb_create(mode, outcome)
    \/ rb_close
    \/ \E size \in Sizes : rb_write(size)
    \/ \E size \in Sizes, ub \in NullCopyOutcomes : rb_write_atomic(size, ub)
    \/ \E op \in {"read", "peek"}, size \in Sizes : rb_read(op, size)
    \/ \E size \in Sizes : rb_skip(size)
    \/ rb_wait_for_data
    \/ \E op \in {"get_free_space", "get_used_space"} : rb_get_space(op)


(***************************************************************************)
(* connect called on a connected client (client.cpp 42-91, 157-208).       *)
(* socket_mutex_ is a std::mutex; both connect and disconnect take it with *)
(* a lock_guard, and connect calls disconnect while it holds it.           *)
(***************************************************************************)
Endpoints == {1, 2}

\* std::mutex::lock by the thread that owns the mutex is undefined: the
\* thread blocks on itself, or lock throws std::system_error
\* (resource_deadlock_would_occur)
RelockOutcomes == {"blocks", "system_error"}

IdleThread == [pc |-> "idle", op |-> "none", ret |-> "none", target |-> 0,
               was_connected |-> FALSE]

\* the constructor of either class
rc_construct(class) ==
    /\ rc.class = "none"
    /\ rc' = [rc EXCEPT !.class = class]
    /\ UNCHANGED rct
    /\ UNCHANGED outsideReconn

\* connect(host, port) is called: the thread goes for the lock_guard
rc_connect_call(t, endpoint) ==
    /\ rc.class # "none"
    /\ rct[t].pc = "idle"
    /\ rct' = [rct EXCEPT ![t] =
          [pc |-> "connect_lock", op |-> "connect", ret |-> "none",
           target |-> endpoint, was_connected |-> rc.connected_]]
    /\ UNCHANGED rc
    /\ UNCHANGED outsideReconn

\* connect: lock_guard taken, connected_ tested
rc_connect_lock(t) ==
    /\ rct[t].pc = "connect_lock"
    /\ rc.socket_mutex_ = 0
    /\ rc' = [rc EXCEPT !.socket_mutex_ = t]
    /\ rct' = [rct EXCEPT
          ![t].pc = IF rc.connected_ THEN "disconnect_lock" ELSE "socket",
          ![t].was_connected = rc.connected_]
    /\ UNCHANGED outsideReconn

\* connect: disconnect() called with the mutex held: its lock_guard locks
\* the mutex the thread owns
rc_connect_disconnect(t, ub) ==
    /\ rct[t].pc = "disconnect_lock"
    /\ rc.socket_mutex_ = t
    /\ IF ub = "blocks"
       THEN /\ rct' = [rct EXCEPT ![t].pc = "blocked"]
            /\ UNCHANGED rc
       ELSE \* the exception leaves connect, whose lock_guard unlocks
            /\ rct' = [rct EXCEPT ![t].pc = "idle",
                                  ![t].ret = "system_error"]
            /\ rc' = [rc EXCEPT !.socket_mutex_ = 0]
    /\ UNCHANGED outsideReconn

\* connect: socket(), gethostbyname(), ::connect() and the assignments; the
\* lock_guard unlocks on return and on the throw
rc_connect_socket(t, ok) ==
    /\ rct[t].pc = "socket"
    /\ rc.socket_mutex_ = t
    /\ IF ok
       THEN /\ rc' = [rc EXCEPT !.socket_ = rct[t].target,
                                !.connected_ = TRUE,
                                !.open = @ \cup {rct[t].target},
                                !.socket_mutex_ = 0]
            /\ rct' = [rct EXCEPT ![t].pc = "idle", ![t].ret = "connected"]
       ELSE /\ rc' = [rc EXCEPT !.socket_mutex_ = 0]
            /\ rct' = [rct EXCEPT ![t].pc = "idle",
                                  ![t].ret = "ConnectionException"]
    /\ UNCHANGED outsideReconn

\* disconnect() called by the application
rc_disconnect(t) ==
    /\ rc.class # "none"
    /\ rct[t].pc = "idle"
    /\ rc.socket_mutex_ = 0
    /\ rc' = [rc EXCEPT
          !.open = IF rc.connected_ /\ rc.socket_ # 0
                   THEN @ \ {rc.socket_} ELSE @,
          !.socket_ = IF rc.connected_ /\ rc.socket_ # 0 THEN 0 ELSE @,
          !.connected_ = IF rc.connected_ /\ rc.socket_ # 0 THEN FALSE ELSE @]
    /\ rct' = [rct EXCEPT ![t] = [IdleThread EXCEPT !.op = "disconnect",
                                                   !.ret = "returned"]]
    /\ UNCHANGED outsideReconn

\* call_async / call: the lock_guard, the test of connected_, the exchange
rc_call(t) ==
    /\ rc.class # "none"
    /\ rct[t].pc = "idle"
    /\ rc.socket_mutex_ = 0
    /\ rct' = [rct EXCEPT ![t] =
          [IdleThread EXCEPT !.op = "call",
                             !.ret = IF rc.connected_ THEN "returned"
                                     ELSE "ConnectionException"]]
    /\ UNCHANGED rc
    /\ UNCHANGED outsideReconn

\* no client yet
InitReconn ==
    /\ rc = [class |-> "none", connected_ |-> FALSE, socket_ |-> 0,
             socket_mutex_ |-> 0, open |-> {}]
    /\ rct = [t \in Threads |-> IdleThread]

NextReconn ==
    \/ \E class \in ClientClasses : rc_construct(class)
    \/ \E t \in Threads, endpoint \in Endpoints : rc_connect_call(t, endpoint)
    \/ \E t \in Threads : rc_connect_lock(t)
    \/ \E t \in Threads, ub \in RelockOutcomes : rc_connect_disconnect(t, ub)
    \/ \E t \in Threads, ok \in BOOLEAN : rc_connect_socket(t, ok)
    \/ \E t \in Threads : rc_disconnect(t)
    \/ \E t \in Threads : rc_call(t)

(***************************************************************************)
(* Specifications                                                          *)
(***************************************************************************)
Init == InitRing /\ InitRpc /\ InitThreads /\ InitMsg /\ InitCodec
        /\ InitReconn
        /\ InitUse
        /\ InitReader
        /\ InitIds
        /\ InitPart
        /\ InitSpsc
        /\ InitMgr
        /\ InitHdr
        /\ InitDispatch
        /\ InitFrame
        /\ InitLatch
        /\ InitConn
        /\ InitLife
        /\ InitMask
        /\ InitReg

SpecRing == Init /\ [][NextRing]_vars

SpecRpc == Init /\ [][NextRpc]_vars

SpecServed == Init /\ [][NextServed]_vars

SpecCalls == Init /\ [][NextCalls]_vars

SpecShared == Init /\ [][NextShared]_vars

SpecMsg == Init /\ [][NextMsg]_vars

SpecCodec == Init /\ [][NextCodec]_vars

SpecReg == Init /\ [][NextReg]_vars

SpecMask == Init /\ [][NextMask]_vars

SpecLife == Init /\ [][NextLife]_vars

SpecConn == Init /\ [][NextConn]_vars

SpecLatch == Init /\ [][NextLatch]_vars

SpecFrame == Init /\ [][NextFrame]_vars

SpecDispatch == Init /\ [][NextDispatch]_vars

SpecHdr == Init /\ [][NextHdr]_vars

SpecMgr == Init /\ [][NextMgr]_vars

SpecSpsc == Init /\ [][NextSpsc]_vars

SpecPart == Init /\ [][NextPart]_vars

SpecIds == Init /\ [][NextIds]_vars

SpecReader == Init /\ [][NextReader]_vars

SpecUse == Init /\ [][NextUse]_vars

SpecReconn == Init /\ [][NextReconn]_vars

(***************************************************************************)
(* Properties of the ring buffer                                           *)
(***************************************************************************)
IsPrefix(s, t) == Len(s) <= Len(t) /\ \A i \in 1..Len(s) : s[i] = t[i]

Quiescent == prod.pc = "idle" /\ cons.pc = "idle"

\* C1 (ring-buffer FIFO): the bytes returned by the reads, concatenated, are
\* bytes that were written, in the order they were written and without
\* repetition; when nothing was skipped they are a prefix of the written
\* bytes, and all of them once both sides are idle and the buffer is drained.
C1_Fifo ==
    /\ \A i \in 1..Len(readOut) :
          \E j \in 1..Len(written) : readOut[i] = written[j]
    /\ \A i, j \in 1..Len(readOut) : i < j => readOut[i] < readOut[j]
    /\ skipped = 0 => IsPrefix(readOut, written)
    /\ skipped = 0 /\ Quiescent /\ read_pos = write_pos => readOut = written

\* more bytes than the capacity went through the buffer and came out whole
C1_Witness ==
    /\ Quiescent
    /\ skipped = 0
    /\ Len(written) > Capacity
    /\ readOut = written

\* C2 (backpressure): a write of size > 0 returns false exactly when its
\* size exceeds the free space it loads, and a write that returns false
\* leaves write_pos, read_pos and the data region as they were at the call.
C2_Backpressure ==
    [][(prod.pc = "load" /\ prod.op = "write" /\ prod' # prod) =>
          /\ (Len(prod.src) > Capacity - (write_pos - read_pos))
                <=> (prod'.pc = "idle" /\ prod'.ret = "false")
          /\ prod'.ret = "false" =>
                /\ write_pos' = write_pos
                /\ read_pos' = read_pos
                /\ buffer_' = prod.snap]_vars

\* a write that failed for lack of space is repeated with the same size
\* after the consumer has read, and goes through
C2_Witness ==
    /\ prod.pc = "signal"
    /\ prod.op = "write"
    /\ prod.lastFail > 0
    /\ Len(prod.src) = prod.lastFail
    /\ Len(readOut) > 0

\* C3 (cursor invariant): read_pos <= write_pos, at most Capacity bytes are
\* in the buffer, and neither cursor ever decreases.
C3_Cursors ==
    /\ [](read_pos <= write_pos /\ write_pos - read_pos <= Capacity)
    /\ [][write_pos' >= write_pos /\ read_pos' >= read_pos]_vars

\* the write cursor has passed the capacity, with a full buffer behind it,
\* after the consumer moved its cursor with a skip
C3_Witness ==
    /\ read_pos >= 1
    /\ write_pos - read_pos = Capacity
    /\ skipped > 0

\* C4 (producer publication order): every position below write_pos that is
\* not yet consumed holds the byte written for it, and every byte the
\* consumer has copied out is the byte written at its position.
C4_PublishedIsCopied ==
    /\ \A p \in read_pos..(write_pos - 1) : buffer_[p % Capacity] = p + 1
    /\ cons.pc \in {"copy", "signal"} /\ cons.op \in {"read", "peek"} =>
          \A i \in 1..Len(cons.dst) : cons.dst[i] = cons.rp + i

\* the consumer copies bytes out while the producer is inside a later copy
C4_Witness ==
    /\ prod.pc = "copy"
    /\ prod.off > 0
    /\ cons.pc = "copy"
    /\ cons.op = "read"
    /\ Len(cons.dst) > 0

\* first position the consumer has not finished with
ConsumerFrontier ==
    IF cons.pc \in {"copy", "signal"} /\ cons.op = "read"
    THEN cons.rp + Len(cons.dst)
    ELSE read_pos

\* C5 (consumer publication order): no step changes a slot of the data
\* region that holds a byte the consumer has not yet copied out.
C5_NoOverwriteOfUnread ==
    [][\A p \in ConsumerFrontier..(write_pos - 1) :
          buffer_'[p % Capacity] = buffer_[p % Capacity]]_vars

\* the producer reuses a slot the consumer has released, during a read
C5_Witness ==
    /\ prod.pc = "copy"
    /\ prod.off > 0
    /\ prod.wp >= Capacity
    /\ cons.pc = "copy"
    /\ cons.op = "read"
    /\ Len(cons.dst) > 0

\* C31 (write_atomic): a write_atomic goes on to copy exactly when its size
\* is at most the free space it loads and does not reach past the end of
\* the data region; then the bytes lie in one contiguous range and
\* write_pos advances by the size in one store, after the copy; otherwise
\* it returns false with both cursors and the data region as they were at
\* the call.
C31_WriteAtomic ==
    [][(prod'.op = "write_atomic" /\ prod.pc # "idle" /\ prod' # prod) =>
          LET size == Len(prod.src)
              fits == /\ size <= Capacity - (write_pos - read_pos)
                      /\ (write_pos % Capacity) + size <= Capacity
          IN /\ prod.pc = "load" =>
                   /\ fits <=> prod'.pc = "copy"
                   /\ ~fits <=> (prod'.pc = "idle" /\ prod'.ret = "false")
             /\ prod'.ret = "false" =>
                   /\ write_pos' = write_pos
                   /\ read_pos' = read_pos
                   /\ buffer_' = prod.snap
             /\ write_pos' # write_pos =>
                   /\ write_pos' = write_pos + size
                   /\ (write_pos % Capacity) + size <= Capacity
                   /\ \A i \in 1..size :
                         buffer_'[(write_pos % Capacity) + i - 1] = prod.src[i]
             /\ prod'.ret = "true" => write_pos = prod.wp + size]_vars

\* a write_atomic has been refused although the buffer is empty: its bytes
\* would have crossed the end of the data region
C31_Witness ==
    /\ prod.pc = "idle" /\ prod.op = "write_atomic" /\ prod.ret = "false"
    /\ cons.pc = "idle"
    /\ write_pos = read_pos
    /\ write_pos % Capacity # 0


\* a producer step that takes a pending space_available signal
ProducerTakesSpaceSignal == Producer /\ space_available' < space_available

\* the consumer side of wake correctness: a consumer blocked in
\* wait_for_data while a write returned true has a signal pending, and
\* wait_for_data does not return false after such a write
ConsumerWake ==
    /\ cons.pc = "wait" /\ writeSinceWait => data_ready > 0
    /\ cons.pc = "idle" /\ cons.op = "wait_for_data" /\ cons.ret = "false"
          => ~writeSinceWait

\* C6 (wake correctness): a consumer blocked in wait_for_data returns true
\* after a write that returned true before the timeout, and a producer
\* waiting for space is woken by the signal of a successful read or skip.
C6_WakeCorrectness ==
    /\ ConsumerWake
    /\ space_available > 0 => ENABLED ProducerTakesSpaceSignal

(***************************************************************************)
(* Properties of the RPC transport                                         *)
(***************************************************************************)
ServiceOf(name) == parse_method_name(name)[1]

MethodOf(name) == parse_method_name(name)[2]

\* C7 (unary RPC): a completed call to a registered unary method with a
\* decodable request, whose handler returned, returns the response type's hash code followed by the
\* encoding of h(decode(x)).
C7_UnaryResponse ==
    (/\ cli.pc = "idle"
     /\ cli.kind = "unary"
     /\ ServiceOf(cli.method) \in services_
     /\ MethodOf(cli.method) \in methods_
     /\ ~read_int32_throws(cli.request)
     /\ served.fault = "none")
    => cli.response =
          write_int32(Int32HashCode) \o write_int32(h(read_int32(cli.request)))

\* the request the server last worked on names no registered service, or a
\* method in none of the three registries, or does not decode
UnknownTarget ==
    \/ ServiceOf(served.method_name) \notin services_
    \/ MethodOf(served.method_name)
          \notin (stream_methods_ \cup methods_ \cup async_methods_)
    \/ read_int32_throws(served.request_bytes)

\* C8 (unknown target): for a request with an unknown service, an unknown
\* method or an undecodable body the server writes one empty frame, and it
\* goes on to serve the next request of the connection.
C8_UnknownTargetEmptyFrame ==
    (served.k > 0 /\ UnknownTarget) =>
        /\ served.out = write_int32(0)
        /\ FrameReady(c2s) => ENABLED handle_client

\* number of frames in a sequence of bytes made of whole frames
RECURSIVE FrameCount(_)
FrameCount(bytes) ==
    IF Len(bytes) < 4 THEN 0
    ELSE 1 + FrameCount(SubSeq(bytes, 5 + u32(bytes, 1), Len(bytes)))

\* C9 (request/response pairing): the server writes exactly one frame for
\* every request that is not a stream call, and a completed unary call has
\* consumed bytes the server wrote for that very call and no others.
C9_Pairing ==
    /\ (served.k > 0 /\ ~(/\ ServiceOf(served.method_name) \in services_
                          /\ MethodOf(served.method_name) \in stream_methods_))
          => FrameCount(served.out) = 1
    /\ (cli.pc = "idle" /\ cli.kind = "unary") => cli.respTags = {cli.k}

\* C10 (stream termination): the frames the client reader has returned are
\* the first frames the service's reader yielded for this call, and all of
\* them once has_more() is false.
C10_StreamTermination ==
    (/\ cli.kind = "stream"
     /\ served.k = cli.k
     /\ ~register_stream_method_throws(served.request_bytes))
    => /\ IsPrefix(cli.frames, served.items)
       /\ ~has_more(cli.reader) => cli.frames = served.items

\* the data frames of a stream, one frame per item
RECURSIVE DataFrames(_)
DataFrames(items) ==
    IF items = <<>> THEN <<>>
    ELSE Frame(Head(items)) \o DataFrames(Tail(items))

\* the server last worked on a stream call that reached the service's reader
ServedStream ==
    /\ served.k > 0
    /\ ServiceOf(served.method_name) \in services_
    /\ MethodOf(served.method_name) \in stream_methods_
    /\ ~register_stream_method_throws(served.request_bytes)
    /\ served.fault # "method"

\* C11 (single terminator): for a stream call the server writes the data
\* frames the reader yielded and then exactly one zero-length frame, whether
\* the reader ends by has_more() turning false or by an empty frame.
C11_SingleTerminator ==
    ServedStream => served.out = DataFrames(served.items) \o write_int32(0)

\* the server last worked on a request to a registered method whose handler
\* threw: the request did not decode, the user method threw, or the stream
\* reader threw after yielding its items
HandlerThrew ==
    /\ served.k > 0
    /\ ServiceOf(served.method_name) \in services_
    /\ MethodOf(served.method_name)
          \in (stream_methods_ \cup methods_ \cup async_methods_)
    /\ read_int32_throws(served.request_bytes) \/ served.fault # "none"

\* what the handler had sent when it threw
SentBeforeThrow ==
    IF served.fault = "reader" THEN DataFrames(served.items) ELSE <<>>

InRecv == {t \in Threads : thr[t].pc = "recv"}

\* C12 (client call serialization): among threads making unary calls, at
\* most one is between its send and its receive and it holds the mutex; the
\* wire carries bytes of that call only and nothing when no call is open;
\* a returned call has consumed bytes written for that very call.
C12_CallSerialization ==
    /\ Cardinality(InRecv) <= 1
    /\ \A t \in InRecv :
          /\ socket_mutex_ = t
          /\ Tags(c2s) \cup Tags(s2c) \subseteq {thr[t].k}
    /\ InRecv = {} => c2s = <<>> /\ s2c = <<>>
    /\ \A t \in Threads :
          (thr[t].pc \in {"idle", "lock"} /\ thr[t].respTags # {})
              => thr[t].respTags = {thr[t].k}

\* a thread waits for the mutex while the response of another thread's call
\* is on its way, after an earlier call of the client has returned
C12_Witness ==
    \E t, u \in Threads :
        /\ thr[t].pc = "recv"
        /\ thr[u].pc = "lock"
        /\ FrameReady(s2c)
        /\ thr[t].k > 1

\* a thread holds a reader that has not ended
LiveReader(t) == thr[t].pc = "stream" /\ has_more(thr[t].reader)

\* C13 (stream owns the socket): while a thread holds a reader that has not
\* ended or failed, no unary call of the client is between its send and its
\* receive, and no call or reader consumes bytes written for another call.
C13_StreamOwnsSocket ==
    /\ (\E t \in Threads : LiveReader(t)) => InRecv = {}
    /\ \A t \in Threads : thr[t].respTags \subseteq {thr[t].k}

(***************************************************************************)
(* Properties of the message layer                                         *)
(***************************************************************************)
\* C15 (one message per receive): a successful receive_message returns the
\* header and payload of the oldest unread message and advances the read
\* position by the header size plus that message's payload size, however
\* many messages are queued.
C15_OneMessagePerReceive ==
    lastRecv.n > 0 =>
        /\ lastRecv.message_id = lastRecv.oldest.message_id
        /\ lastRecv.message_type = lastRecv.oldest.message_type
        /\ lastRecv.payload_size = lastRecv.oldest.payload_size
        /\ lastRecv.payload = lastRecv.oldest.payload
        /\ lastRecv.advanced = HeaderSize + lastRecv.oldest.payload_size

\* the message_id of every message written to the ring, in order
SentIds == [i \in 1..Len(sentLog) |-> sentLog[i].message_id]

\* C16 (message-layer ordering): the ids of the messages received are
\* strictly ascending and are the ids of the messages sent, in order and
\* without a gap.
C16_MessageOrdering ==
    /\ \A i, j \in 1..Len(recvIds) : i < j => recvIds[i] < recvIds[j]
    /\ IsPrefix(recvIds, SentIds)

\* C17 (heartbeat liveness): a wait_for_heartbeat(3H) that ran while the
\* producer was running and the consumer receiving returned true, and one
\* called after the producer stopped, more than the timeout after the last
\* heartbeat, returned false.
C17_HeartbeatLiveness ==
    /\ (wfh.pc = "done" /\ wfh.producer = "running"
           /\ mgr.producer = "running") => wfh.ret
    /\ (wfh.pc = "done" /\ wfh.stale) => ~wfh.ret

(***************************************************************************)
(* Properties of the framing and the codec                                 *)
(***************************************************************************)
\* C18 (framing round-trip): the server extracts the method name and the
\* body the client framed; a length-prefixed name, the empty name
\* included, is parsed as format A, and a legacy payload with a non-empty
\* printable name is parsed by the fallback with the rest as the body.
C18_FramingRoundTrip ==
    framed.n > 0 =>
        /\ ~framed.legacy =>
              /\ framed.format = "A"
              /\ framed.method_name = framed.method
              /\ framed.request_bytes = framed.body
        /\ (framed.legacy /\ framed.method # <<>>) =>
              /\ framed.format = "B"
              /\ framed.method_name = framed.method
              /\ framed.request_bytes = framed.body

\* C19 (polymorphic round-trip): write_object writes the handler's hash
\* code and then the payload, and read_object gives the object back;
\* an absent object is written as int32 -1 and read back as absent; an
\* unknown hash code makes read_object fail with an unknown-type error.
C19_ObjectRoundTrip ==
    /\ (coded.op = "object" /\ coded.value # Absent) =>
          /\ ~coded.crash
          /\ coded.bytes = write_int32(Int32HashCode)
                               \o write_int32(coded.value.v)
          /\ coded.back.object = coded.value
          /\ coded.back.consumed = Len(coded.bytes)
    /\ (coded.op = "object" /\ coded.value = Absent) =>
          /\ ~coded.crash
          /\ coded.bytes = write_int32(-1)
          /\ coded.back.object = Absent
          /\ coded.back.error = "none"
    /\ coded.op = "unknown" => coded.back.error = "unknown type"

\* C20 (codec round-trip): for int32, int64, uint32, bool, string and bytes
\* the read gives the value written and consumes exactly the bytes written;
\* a bool is written as the int32 0 or 1, the empty string as the length
\* -1, and read_string gives the empty string for the lengths -1 and 0.
C20_CodecRoundTrip ==
    /\ coded.op = "round_trip" =>
          /\ ~coded.back.throws
          /\ coded.back.value = coded.value
          /\ coded.back.consumed = Len(coded.bytes)
          /\ coded.type = "bool" =>
                coded.bytes = write_int32(IF coded.value THEN 1 ELSE 0)
          /\ (coded.type = "string" /\ coded.value = <<>>) =>
                coded.bytes = write_int32(-1)
    /\ coded.op = "read_string" =>
          /\ ~coded.back.throws
          /\ coded.back.value = <<>>

(***************************************************************************)
(* Properties of the handler registry                                      *)
(***************************************************************************)
\* C21: a hash code that a registration gave to one native type stays with
\* that type: registering a handler with that hash code for another type is
\* refused, so no step changes the owner of a hash code.
C21_RegistryUniqueness ==
    [][\A hc \in RegHashCodes :
          hash_owner[hc] # "none" => hash_owner'[hc] = hash_owner[hc]]_vars

\* If any thread has returned from instance().
Accessed == \E t \in Threads : inst[t] = "in"

\* C22: once a thread has returned from instance(), every built-in is found
\* by its native type and by its hash code, and init_handlers has run
\* once at most however many threads made the first access together.
C22_BuiltInsOnFirstUse ==
    /\ Accessed =>
          \A b \in BuiltIns :
             /\ registry_get_handler(b.type) # nullptr
             /\ get_handler_by_hash_code(b.hash_code) # nullptr
    /\ inits <= 1

(***************************************************************************)
(* Properties of BitMask                                                   *)
(***************************************************************************)
MostRecentlySet(i) == i \in MaskIndices /\ last_set[i]

\* C23: get_bit(i) is the value most recently set for i and false for an
\* index never set, beyond the last word included; a set bit i is bit
\* i mod 32, counted from the least significant, of word floor(i / 32);
\* and a mask written and read back has the words that were written.
C23_BitMask ==
    /\ \A i \in AskedIndices : get_bit(masks_, i) = MostRecentlySet(i)
    /\ \A i \in MaskIndices :
          last_set[i] =>
             /\ i \div 32 < Len(masks_)
             /\ (masks_[(i \div 32) + 1][((i % 32) \div 8) + 1]
                   \div (2 ^ (i % 8))) % 2 = 1
    /\ wire.n > 0 => wire.back = wire.from

\* Bit 32 made the vector grow while bit 1 was set, and the mask with both
\* has been written and read back.
C23_Witness ==
    /\ Len(masks_) >= 2
    /\ last_set[1] /\ last_set[32]
    /\ wire.n > 0 /\ wire.from = masks_

(***************************************************************************)
(* Properties of shutdown                                                  *)
(***************************************************************************)
LifeState ==
    [o \in ShutObjects |->
       CASE o = "TcpRpcClient" -> tcp_client
         [] o = "TcpRpcClientAsync" -> tcp_async
         [] o = "TcpRpcServer" -> tcp_server
         [] o = "SharedMemoryManager" -> shm_manager
         [] o = "RingBuffer" -> ring_object
         [] o = "TcpStreamResponseReader" -> stream_reader
         [] o = "TcpStreamResponseWriter" -> stream_writer]

Terminators == Len(SelectSeq(stream_writer.sent, LAMBDA f : f = "end"))

\* C24: a disconnect, stop or close called on an object that was already
\* shut down leaves the object, its descriptor included, as the first call
\* left it, and the stream writer has sent at most one end marker however
\* often close() was called.
C24_IdempotentShutdown ==
    [][/\ \A o \in ShutObjects :
             (closes[o] >= 1 /\ closes'[o] = closes[o] + 1)
                => LifeState'[o] = LifeState[o]
       /\ Terminators' <= 1]_vars

\* A server that ran and a writer that sent an item were both shut down
\* twice.
C24_Witness ==
    /\ closes["TcpRpcServer"] = 2 /\ closes["TcpStreamResponseWriter"] = 2
    /\ tcp_server.fd = "closed"
    /\ stream_writer.sent = <<"item", "end">>

(***************************************************************************)
(* Properties of the client on a failing connection                        *)
(***************************************************************************)
\* C25: when the most recent call of a client raised a wire error (the
\* response length or the response data was not received), the client is
\* Disconnected: is_connected() is false; and a call that failed with
\* not-connected sent nothing.
C25_ClientErrorTransition ==
    \A cls \in ClientClasses :
       /\ clients[cls].thrown \in WireErrors => ~clients[cls].connected_
       /\ clients[cls].thrown = NotConnected => ~clients[cls].sent

(***************************************************************************)
(* Properties of the stream reader's and writer's error state              *)
(***************************************************************************)
\* C26: once the reader or the writer has recorded an error, has_error()
\* stays true, get_error_message() keeps the first error, has_more() and
\* is_valid() are false, every later read_next() throws and every later
\* write() returns false, and no later call touches the socket.
C26_ErrorLatching ==
    [][/\ rd.has_error_ =>
             /\ rd'.has_error_
             /\ rd'.error_message_ = rd.error_message_
             /\ ~reader_has_more(rd) /\ ~reader_has_more(rd')
             /\ rd'.touched = rd.touched
             /\ (rd'.calls # rd.calls /\ rd'.op = "read_next")
                   => rd'.result = "throws"
       /\ wr.has_error_ =>
             /\ wr'.has_error_
             /\ wr'.error_message_ = wr.error_message_
             /\ ~writer_is_valid(wr) /\ ~writer_is_valid(wr')
             /\ wr'.touched = wr.touched
             /\ (wr'.calls # wr.calls /\ wr'.op = "write")
                   => wr'.result = "false"]_vars

\* Both have an error recorded and were called again afterwards: the reader
\* with read_next(), the writer with write().
C26_Witness ==
    /\ rd.has_error_ /\ rd.calls = MaxCalls /\ rd.touched = 1
    /\ rd.op = "read_next" /\ rd.result = "throws"
    /\ wr.has_error_ /\ wr.calls = MaxCalls /\ wr.touched = 1
    /\ wr.op = "write" /\ wr.result = "false"

(***************************************************************************)
(* Properties of the worker's frame reception                              *)
(***************************************************************************)
\* C27: a frame whose frame_len is above 10 MiB, or whose bytes had not all
\* arrived when the connection ended, is not dispatched and ends the
\* worker's connection; a frame that is dispatched had exactly frame_len
\* bytes read.
C27_ServerFrameValidation ==
    \A i \in 1..Len(rx.log) :
       LET f == rx.log[i]
       IN /\ (f.frame_len > MAX_FRAME_SIZE \/ ~f.complete)
                => (f.does = "break" /\ i = Len(rx.log) /\ rx.worker = "closed")
          /\ f.does = "dispatch" => f.read = f.frame_len

(***************************************************************************)
(* Properties of dispatch                                                  *)
(***************************************************************************)
\* The registries that held the method when the call was dispatched; a
\* registration made afterwards is not counted.
HeldBy(kind) == dispatched.method \in dispatched.at[kind]

\* C28: a call is given to the stream handler when the stream registry
\* holds its method, otherwise to the unary handler when the unary registry
\* holds it, otherwise to the async handler; a method held by several
\* registries runs the first of them only, and no call runs two handlers.
C28_DispatchPrecedence ==
    dispatched.n > 0 =>
       /\ Len(dispatched.invoked) <= 1
       /\ HeldBy("stream") => dispatched.invoked = <<"stream">>
       /\ (~HeldBy("stream") /\ HeldBy("unary"))
             => dispatched.invoked = <<"unary">>
       /\ (~HeldBy("stream") /\ ~HeldBy("unary") /\ HeldBy("async"))
             => dispatched.invoked = <<"async">>
       /\ (\A kind \in RegistryKinds : ~HeldBy(kind))
             => dispatched.invoked = <<>>

\* A method held by all three registries was called.
C28_Witness ==
    /\ dispatched.n > 0
    /\ \A kind \in RegistryKinds : HeldBy(kind)
    /\ dispatched.invoked = <<"stream">>

(***************************************************************************)
(* Properties of RingBuffer::create                                        *)
(***************************************************************************)
\* The consumer's create has loaded a field that is not what it expects.
SawMismatch(c) ==
    \E i \in 1..Len(c.seen) :
       \/ (ValidatedFields[i] = "magic_number" /\ c.seen[i] # MAGIC_NUMBER)
       \/ (ValidatedFields[i] = "version" /\ c.seen[i] # 1)
       \/ (ValidatedFields[i] = "buffer_size" /\ c.seen[i] # c.size)
       \/ (ValidatedFields[i] = "initialized" /\ c.seen[i] # 1)

\* C29: create(OPEN_ONLY) that found a wrong magic, version, capacity or
\* initialized flag in the header returns false and leaves the object not
\* connected, and no step of create(OPEN_ONLY) changes the header.
C29_HeaderValidationOnOpen ==
    [][/\ ccreate'.pc # ccreate.pc \/ ccreate'.seen # ccreate.seen
             => shm_header' = shm_header
       /\ (ccreate' # ccreate /\ SawMismatch(ccreate'))
             => (ccreate'.result = "false" /\ ~ccreate'.connected
                   /\ ccreate'.pc = "idle")]_vars

\* The consumer's create failed on each of the four fields in turn is not
\* one state; this one failed on the initialized flag, the last it loads,
\* while the producer was writing the header.
C29_Witness ==
    /\ ccreate.result = "false" /\ ~ccreate.connected
    /\ Len(ccreate.seen) = 4 /\ ccreate.seen[4] = 0
    /\ pcreate.pc = "storing"

\* C30: a consumer whose create(OPEN_ONLY) succeeded during the first
\* creation of the mapping saw a completely written header: magic, version
\* and initialized set, its own capacity, valid cursors, and no field that
\* a store of the producer's create was still going to change.
C30_InitializationOrder ==
    (ccreate.connected /\ ccreate.at.creation <= 1) =>
       LET hdr == ccreate.at.header
       IN /\ hdr.magic_number = MAGIC_NUMBER /\ hdr.version = 1
          /\ hdr.initialized = 1
          /\ hdr.buffer_size = ccreate.size /\ hdr.buffer_size = ProducerSize
          /\ hdr.read_pos <= hdr.write_pos
          /\ hdr.write_pos - hdr.read_pos <= hdr.buffer_size
          /\ \A f \in ccreate.at.pending : hdr[f] = StoreValue(f)

\* The consumer's create succeeded while stores of the producer's first
\* create had not yet reached the mapping.
C30_Witness ==
    /\ ccreate.connected /\ ccreate.at.creation = 1
    /\ ccreate.at.pending # {}

(***************************************************************************)
(* Properties of the SharedMemoryManager and its threads                   *)
(***************************************************************************)
\* The role a manager shows: Stopped is a manager whose threads of an
\* earlier run have been joined.
Role ==
    IF sm.is_producer_ /\ sm.is_consumer_ THEN "Both"
    ELSE IF sm.is_producer_ THEN "Producer"
    ELSE IF sm.is_consumer_ THEN "Consumer"
    ELSE IF sm.worker_thread_ = "joined" THEN "Stopped"
    ELSE "Idle"

\* C32: the role changes only from Idle to Producer by start_producer, from
\* Idle to Consumer by start_consumer and from Producer or Consumer to
\* Stopped by stop; a start on a running manager returns false and changes
\* nothing; the manager is never producer and consumer at once; and when
\* stop has returned, running_, is_producer_ and is_consumer_ are false.
C32_ManagerLifecycle ==
    [][/\ Role' # Role =>
             \/ Role = "Idle" /\ Role' = "Producer"
                   /\ ctl'.op = "start_producer"
             \/ Role = "Idle" /\ Role' = "Consumer"
                   /\ ctl'.op = "start_consumer"
             \/ Role \in {"Producer", "Consumer"} /\ Role' = "Stopped"
                   /\ ctl'.op = "stop"
       /\ (ctl' # ctl /\ sm.running_ /\ ctl'.op # "stop" /\ ctl.pc = "idle")
             => (ctl'.ret = "false" /\ sm' = sm /\ mt' = mt)
       /\ Role' # "Both"
       /\ (ctl'.op = "stop" /\ ctl'.pc = "idle" /\ ctl' # ctl)
             => (~sm'.running_ /\ ~sm'.is_producer_ /\ ~sm'.is_consumer_)]_vars

\* C39: no thread begins a ring-buffer operation on a ring that stop() has
\* closed or freed.
C39_StopSafety == late = {}

(***************************************************************************)
(* Properties of the managers' threads on the ring                         *)
(***************************************************************************)
\* the written messages a registered handler is to see, in write order
ToBeHandled ==
    LET F[i \in 0..Len(wrote)] ==
          IF i = 0 THEN <<>>
          ELSE IF wrote[i].message_type \in HandledTypes
               THEN Append(F[i - 1], [message_id |-> wrote[i].message_id,
                                      payload |-> wrote[i].payload])
               ELSE F[i - 1]
    IN F[Len(wrote)]

\* C33: the messages handed to the registered handlers are the written
\* messages of a registered type, each once and in the order they were
\* written, also when worker and application thread both receive; messages
\* of a type without a handler are passed over.
C33_HandlerOrder == IsPrefix(handled, ToBeHandled)

\* C34: the application's send_message and the heartbeat thread's
\* send_heartbeat are never both inside RingBuffer::write, and worker and
\* application are never both between the peek and the skip of
\* receive_message.
C34_SpscDiscipline ==
    /\ ~(\A t \in Senders : snd[t].pc = "write")
    /\ ~(\A t \in Receivers : rcv[t].pc = "skip")

(***************************************************************************)
(* Properties of receive_message on an incomplete message                  *)
(***************************************************************************)
\* C35: a receive_message that peeked a header whose payload was not yet
\* all there consumed nothing and returned no message, and that only when
\* its timeout had passed; a receive_message made when the rest is written
\* returns the message as it was written.
C35_IncompleteMessage ==
    /\ (prx.pc = "idle" /\ prx.short) =>
          /\ prx.consumed = 0
          /\ ~prx.ret
          /\ prx.returned - prx.called >= prx.timeout
    /\ (prx.pc = "idle" /\ prx.ret /\ pwriter.n = 1 /\ ~prx.pending) =>
          /\ prx.message.message_id = pwriter.message.message_id
          /\ prx.message.payload = pwriter.message.payload

(***************************************************************************)
(* Properties of the message ids                                           *)
(***************************************************************************)
\* C36: the id of every message built with a type is not zero and is
\* greater than every id handed out before it, the first being 1, with the
\* counter wrapping at 2^32 and threads building at once; a
\* default-constructed message has the id 0 and send_message rejects it.
C36_MessageIds ==
    /\ id_hist.n > 0 =>
          /\ id_hist.last # U32(0, 0)
          /\ id_hist.above
    /\ (id_hist.n > 0 \/ id_hist.runs # {}) => id_hist.first = U32(0, 1)
    /\ \A t \in 1..NumThreads :
          /\ builders[t].pc = "default" =>
                builders[t].message.message_id = U32(0, 0)
          /\ (builders[t].pc = "idle"
                 /\ builders[t].message.message_id = U32(0, 0)
                 /\ builders[t].sent # "none")
                => builders[t].sent = "rejected"

C38_RingLifecycle ==
    /\ (ulast.before # "Initialized"
           /\ ulast.op \in {"write", "write_atomic", "read", "peek", "skip",
                            "wait_for_data"})
          => ulast.ret = "false" /\ region = ulast.region
    /\ (ulast.before # "Initialized"
           /\ ulast.op \in {"get_free_space", "get_used_space"})
          => ulast.count = 0
    /\ (ulast.before = "Initialized" /\ ulast.op = "create")
          => ulast.ret = "true" /\ region = ulast.region

(***************************************************************************)
(* Properties of connect on a connected client                             *)
(***************************************************************************)
\* C40: connect on a connected client never waits for the mutex the
\* calling thread itself holds; when it has returned, the old socket is
\* closed, the mutex is released, and the client is connected to the new
\* endpoint or disconnected after a connection error.
C40_ReconnectTerminates ==
    \A t \in Threads :
       /\ ~(rct[t].pc \in {"disconnect_lock", "blocked"}
               /\ rc.socket_mutex_ = t)
       /\ (rct[t].op = "connect" /\ rct[t].was_connected
              /\ rct[t].pc = "idle")
             => /\ rct[t].ret \in {"connected", "ConnectionException"}
                /\ rc.socket_mutex_ # t

====
